---- MODULE Spec2Model ----
(***************************************************************************)
(* A model of tsickle's pipeline coordinator (toClosureJS) and of its      *)
(* decorator downleveler (DecoratorClassVisitor / DecoratorRewriter).      *)
(*                                                                         *)
(* The specifications that share the module:                               *)
(*   Spec              the pipeline coordinator, one action per stage      *)
(*   LowerSpec         shouldLower applied to a decorator's declarations   *)
(*   DecoratorSpec     convertDecorators applied to a source file          *)
(*   ExpressionSpec    convertDecorators, by kind of decorator expression  *)
(*   MainSpec          main: toClosureJS or toClosureJSDevMode             *)
(*   HostSpec          the source-replacing compiler host                  *)
(*   AnnotatingSpec    the toClosureJS that annotates file by file         *)
(*   TranslatorRunSpec the type translator on type aliases                 *)
(*   AnnotatorSpec     the annotator on type aliases and variables         *)
(*   ConverterSpec     the CommonJS to goog.module converter               *)
(*   NestingSpec       convertDecorators on classes declared in methods    *)
(*   ClassesSpec       convertDecorators on files of several classes       *)
(*   ImportSpec        convertDecorators on files that import a class      *)
(*   CliSpec           main: the settings of a run and the files written   *)
(***************************************************************************)
EXTENDS Naturals, Integers, Sequences, FiniteSets, TLC

VARIABLES
    \* ---- pipeline coordinator (toClosureJS) ----
    pc,                  \* position inside toClosureJS
    tsicklePasses,       \* closureJSOptions.tsicklePasses
    preEmitDiagnostics,  \* what ts.getPreEmitDiagnostics(program) returns
    emitDiagnostics,     \* what program.emit(undefined).diagnostics returns
    allDiagnostics,      \* the caller's diagnostics array
    allDiagnostics0,     \* its contents when toClosureJS was called
    program,             \* the passes whose output the current program holds
    calls,               \* the collaborator calls made so far, in order
    result,              \* what toClosureJS returned (NotReturned before)
    \* ---- shouldLower ----
    lowerInput,          \* the declarations a decorator resolves to
    lowerResult,         \* what shouldLower returned (NotReturned before)
    \* ---- decorator downleveler ----
    sourceFile,          \* the ts.SourceFile handed to convertDecorators
    converted,           \* what convertDecorators returned (NotReturned before)
    \* ---- main, toClosureJSDevMode and the first toClosureJS ----
    settings,            \* the tsickle settings: devMode
    options,             \* the compiler options: outDir, declaration, sourceMap
    fileSystem,          \* what is known of each input file on disk
    fileNames,           \* the input file names, in order
    fileIndex,           \* how many entries the running loop has been through
    jsFiles,             \* the map from file name to JavaScript, in insertion order
    externs,             \* the externs text gathered so far
    tsickleOutput,       \* the annotated text of each file, by resolved path
    reparseDiagnostics,  \* what type-checking the annotated program reports
    \* ---- source-replacing compiler host ----
    hostInput,           \* the overlay, and the file name asked for
    hostResult,          \* what getSourceFile returned (NotReturned before)
    \* ---- type translator ----
    typeDeclarations,    \* the type each type alias symbol is declared as
    stack,               \* what is left to translate and to write, innermost first
    translating,         \* the symbols whose translation is under way
    typeString,          \* the Closure type written so far
    \* ---- main: settings and written files ----
    mainArgs,            \* the tsickle flags given on the command line
    config,              \* what loadTscConfig returned: the tsickle section of tsconfig.json
    writtenFiles,        \* what main has written to disk, in order
    \* ---- ES5/goog.module converter ----
    es5Input,            \* the file name and the CommonJS lines handed to processES5
    es5Output            \* the lines processES5 returned (NotReturned before)

vars == <<pc, tsicklePasses, preEmitDiagnostics, emitDiagnostics, allDiagnostics,
          allDiagnostics0, program, calls, result, lowerInput, lowerResult,
          sourceFile, converted, settings, options, fileSystem, fileNames,
          fileIndex, jsFiles, externs, tsickleOutput, reparseDiagnostics,
          hostInput, hostResult, typeDeclarations, stack, translating, typeString,
          mainArgs, config, writtenFiles, es5Input, es5Output>>

pipelineVars == <<pc, tsicklePasses, preEmitDiagnostics, emitDiagnostics,
                  allDiagnostics, allDiagnostics0, program, calls, result>>
lowerVars == <<lowerInput, lowerResult>>
decoratorVars == <<sourceFile, converted>>
fileVars == <<settings, options, fileSystem, fileNames, fileIndex, jsFiles, externs,
              tsickleOutput, reparseDiagnostics>>
hostVars == <<hostInput, hostResult>>
translatorVars == <<typeDeclarations, stack, translating, typeString>>
mainVars == <<mainArgs, config, writtenFiles>>
converterVars == <<es5Input, es5Output>>

\* What a call has returned: nothing yet, or null.
NotReturned == [kind |-> "NotReturned"]
null == [kind |-> "null"]

\* ---- bounds ----
MaxPasses == 2        \* length of tsicklePasses
MaxDiagnostics == 2   \* diagnostics one stage reports
MaxPrior == 1         \* diagnostics already in allDiagnostics at the call

\* All sequences over S of length at most n.
SeqUpTo(S, n) == UNION {[1..k -> S] : k \in 0..n}

(***************************************************************************)
(* Pipeline coordinator: toClosureJS                                       *)
(***************************************************************************)
DECORATOR_DOWNLEVEL == "DECORATOR_DOWNLEVEL"
CLOSURIZE == "CLOSURIZE"
Pass == {DECORATOR_DOWNLEVEL, CLOSURIZE}

\* Array.prototype.indexOf: the first index (from 0) holding x, or -1.
indexOf(s, x) ==
    IF \E i \in 1..Len(s) : s[i] = x
    THEN (CHOOSE i \in 1..Len(s) : s[i] = x /\ \A j \in 1..(i - 1) : s[j] # x) - 1
    ELSE -1

\* The diagnostics a stage reports: n of them, told apart by stage and index.
Diagnostics(stage, n) == [i \in 1..n |-> <<stage, i>>]

\* The jsFiles map and externs of a successful run: what the final program emitted.
ClosureOutput(prog) ==
    [kind |-> "output", jsFiles |-> <<"emitted", prog>>, externs |-> <<"externs", prog>>]

\* No input files, and no compiler host in use.
FilesIdle ==
    /\ settings = [devMode |-> FALSE] /\ options = [outDir |-> ""]
    /\ fileSystem = <<>> /\ fileNames = <<>> /\ fileIndex = 0
    /\ jsFiles = <<>> /\ externs = <<>>
    /\ tsickleOutput = <<>> /\ reparseDiagnostics = <<>>
HostIdle == hostInput = <<>> /\ hostResult = NotReturned
\* main has not run, and nothing is being converted.
MainIdle == mainArgs = {} /\ config = <<>> /\ writtenFiles = <<>>
ConverterIdle == es5Input = <<>> /\ es5Output = NotReturned
\* No type in translation.
TranslatorIdle ==
    /\ typeDeclarations = <<>> /\ stack = <<>> /\ translating = {} /\ typeString = <<>>

PipelineIdle ==
    /\ lowerInput = [declarations |-> <<>>] /\ lowerResult = NotReturned
    /\ sourceFile = <<>> /\ converted = NotReturned
    /\ FilesIdle /\ HostIdle /\ TranslatorIdle /\ MainIdle /\ ConverterIdle

PipelineInit ==
    /\ pc = "typecheck"
    /\ tsicklePasses \in SeqUpTo(Pass, MaxPasses)
    /\ preEmitDiagnostics \in {Diagnostics("preEmit", n) : n \in 0..MaxDiagnostics}
    /\ emitDiagnostics \in {Diagnostics("emit", n) : n \in 0..MaxDiagnostics}
    /\ allDiagnostics \in {Diagnostics("prior", n) : n \in 0..MaxPrior}
    /\ allDiagnostics0 = allDiagnostics
    /\ program = <<>>
    /\ calls = <<>>
    /\ result = NotReturned
    /\ PipelineIdle

\* ts.createProgram on the original sources, then ts.getPreEmitDiagnostics.
TypeCheckKeepGoing ==
    /\ pc = "typecheck"
    /\ calls' = calls \o <<"createProgram", "getPreEmitDiagnostics">>
    /\ allDiagnostics' = allDiagnostics \o preEmitDiagnostics
    /\ pc' = "downlevel"
    /\ UNCHANGED <<tsicklePasses, preEmitDiagnostics, emitDiagnostics,
                   allDiagnostics0, program, result, lowerVars, decoratorVars,
                   fileVars, hostVars, translatorVars,
                   mainVars, converterVars>>

TypeCheck ==
    /\ pc = "typecheck"
    /\ calls' = calls \o <<"createProgram", "getPreEmitDiagnostics">>
    /\ IF Len(preEmitDiagnostics) > 0
       THEN /\ allDiagnostics' = allDiagnostics \o preEmitDiagnostics
            /\ result' = null
            /\ pc' = "returned"
       ELSE /\ pc' = "downlevel"
            /\ UNCHANGED <<allDiagnostics, result>>
    /\ UNCHANGED <<tsicklePasses, preEmitDiagnostics, emitDiagnostics,
                   allDiagnostics0, program, lowerVars, decoratorVars,
                   fileVars, hostVars, translatorVars,
                   mainVars, converterVars>>

\* One tsickle pass: tch.reconfigureForRun(program, pass), then a re-parse.
RunPass(pass) ==
    /\ calls' = calls \o <<<<"reconfigureForRun", pass>>, "createProgram">>
    /\ program' = Append(program, pass)

\* A coordinator that runs the passes in the order tsicklePasses lists them.
DecoratorDownlevelInListedOrder ==
    /\ pc = "downlevel"
    /\ IF tsicklePasses # <<>>
       THEN RunPass(tsicklePasses[1])
       ELSE UNCHANGED <<calls, program>>
    /\ pc' = "closurize"
    /\ UNCHANGED <<tsicklePasses, preEmitDiagnostics, emitDiagnostics, allDiagnostics,
                   allDiagnostics0, result, lowerVars, decoratorVars,
                   fileVars, hostVars, translatorVars,
                   mainVars, converterVars>>

DecoratorDownlevel ==
    /\ pc = "downlevel"
    /\ IF indexOf(tsicklePasses, DECORATOR_DOWNLEVEL) # -1
       THEN RunPass(DECORATOR_DOWNLEVEL)
       ELSE UNCHANGED <<calls, program>>
    /\ pc' = "closurize"
    /\ UNCHANGED <<tsicklePasses, preEmitDiagnostics, emitDiagnostics, allDiagnostics,
                   allDiagnostics0, result, lowerVars, decoratorVars,
                   fileVars, hostVars, translatorVars,
                   mainVars, converterVars>>

Closurize ==
    /\ pc = "closurize"
    /\ IF indexOf(tsicklePasses, CLOSURIZE) # -1
       THEN RunPass(CLOSURIZE)
       ELSE UNCHANGED <<calls, program>>
    /\ pc' = "emit"
    /\ UNCHANGED <<tsicklePasses, preEmitDiagnostics, emitDiagnostics, allDiagnostics,
                   allDiagnostics0, result, lowerVars, decoratorVars,
                   fileVars, hostVars, translatorVars,
                   mainVars, converterVars>>

\* An emit that appends its diagnostics without giving up the output.
EmitKeepOutput ==
    /\ pc = "emit"
    /\ calls' = Append(calls, "emit")
    /\ allDiagnostics' = allDiagnostics \o emitDiagnostics
    /\ result' = ClosureOutput(program)
    /\ pc' = "returned"
    /\ UNCHANGED <<tsicklePasses, preEmitDiagnostics, emitDiagnostics,
                   allDiagnostics0, program, lowerVars, decoratorVars,
                   fileVars, hostVars, translatorVars,
                   mainVars, converterVars>>

\* An emit that returns null on diagnostics without passing them on.
EmitDropDiagnostics ==
    /\ pc = "emit"
    /\ calls' = Append(calls, "emit")
    /\ result' = IF Len(emitDiagnostics) > 0 THEN null ELSE ClosureOutput(program)
    /\ pc' = "returned"
    /\ UNCHANGED <<tsicklePasses, preEmitDiagnostics, emitDiagnostics, allDiagnostics,
                   allDiagnostics0, program, lowerVars, decoratorVars,
                   fileVars, hostVars, translatorVars,
                   mainVars, converterVars>>

Emit ==
    /\ pc = "emit"
    /\ calls' = Append(calls, "emit")
    /\ IF Len(emitDiagnostics) > 0
       THEN /\ allDiagnostics' = allDiagnostics \o emitDiagnostics
            /\ result' = null
       ELSE /\ result' = ClosureOutput(program)
            /\ UNCHANGED allDiagnostics
    /\ pc' = "returned"
    /\ UNCHANGED <<tsicklePasses, preEmitDiagnostics, emitDiagnostics,
                   allDiagnostics0, program, lowerVars, decoratorVars,
                   fileVars, hostVars, translatorVars,
                   mainVars, converterVars>>

Next == TypeCheck \/ DecoratorDownlevel \/ Closurize \/ Emit

Spec == PipelineInit /\ [][Next]_vars

(***************************************************************************)
(* Claims about the pipeline coordinator                                   *)
(***************************************************************************)
IsPrefix(s, t) == Len(s) <= Len(t) /\ \A i \in 1..Len(s) : s[i] = t[i]

\* The collaborator calls of a run that passes type-checking, in the documented order.
ExpectedCalls(passes) ==
    <<"createProgram", "getPreEmitDiagnostics">>
    \o (IF \E i \in 1..Len(passes) : passes[i] = DECORATOR_DOWNLEVEL
        THEN <<<<"reconfigureForRun", DECORATOR_DOWNLEVEL>>, "createProgram">> ELSE <<>>)
    \o (IF \E i \in 1..Len(passes) : passes[i] = CLOSURIZE
        THEN <<<<"reconfigureForRun", CLOSURIZE>>, "createProgram">> ELSE <<>>)
    \o <<"emit">>

\* C1: when type-checking yields pre-emit diagnostics, they are appended to
\* allDiagnostics, toClosureJS returns null, and nothing runs afterwards: no
\* reconfigureForRun, no re-parse, no emit.
C1_TypeErrorsAbort ==
    Len(preEmitDiagnostics) > 0 =>
        /\ pc \in {"typecheck", "returned"}
        /\ pc = "returned" =>
              /\ allDiagnostics = allDiagnostics0 \o preEmitDiagnostics
              /\ result = null
              /\ calls = <<"createProgram", "getPreEmitDiagnostics">>
              /\ program = <<>>
              /\ ~ENABLED Next

C1_Witness ==
    /\ pc = "returned" /\ Len(preEmitDiagnostics) > 0 /\ result = null
    /\ Len(tsicklePasses) = MaxPasses /\ Len(allDiagnostics0) > 0

\* C2: a run that gets past type-checking makes its steps in the fixed order
\* decorator downlevel + re-parse, closurize + re-parse, emit, whatever the
\* order of tsicklePasses; at every moment the calls made are a prefix of that
\* order, and the run ends having made exactly those calls.
C2_FixedPassOrder ==
    Len(preEmitDiagnostics) = 0 =>
        /\ IsPrefix(calls, ExpectedCalls(tsicklePasses))
        /\ pc = "returned" => calls = ExpectedCalls(tsicklePasses)

C2_Witness ==
    /\ pc = "returned"
    /\ tsicklePasses = <<CLOSURIZE, DECORATOR_DOWNLEVEL>>
    /\ program = <<DECORATOR_DOWNLEVEL, CLOSURIZE>>

\* C3 as stated: only type-check errors make the coordinator return no output;
\* diagnostics of a later stage are collected and returned alongside the output.
C3_OnlyTypeErrorsShortCircuit ==
    (pc = "returned" /\ Len(preEmitDiagnostics) = 0) =>
        /\ result # null
        /\ allDiagnostics = allDiagnostics0 \o emitDiagnostics

\* C3 as amended: toClosureJS returns null exactly when type-checking or emit
\* reported diagnostics, having appended the diagnostics of that stage; it
\* returns the output only when neither did, and then appends nothing.
C3_ShortCircuitOnTypeOrEmitErrors ==
    pc = "returned" =>
        /\ result = null <=> (Len(preEmitDiagnostics) > 0 \/ Len(emitDiagnostics) > 0)
        /\ result = null =>
              allDiagnostics = allDiagnostics0 \o
                  (IF Len(preEmitDiagnostics) > 0 THEN preEmitDiagnostics
                   ELSE emitDiagnostics)
        /\ result # null =>
              /\ result = ClosureOutput(program)
              /\ allDiagnostics = allDiagnostics0

C3_Witness ==
    /\ pc = "returned" /\ result = null
    /\ Len(preEmitDiagnostics) = 0 /\ Len(emitDiagnostics) > 0
    /\ program # <<>>

(***************************************************************************)
(* DecoratorClassVisitor.shouldLower                                       *)
(*                                                                         *)
(* A declaration is the node getDecoratorDeclarations resolved: its kind,  *)
(* the leading comments of its full text (each a sequence of characters,   *)
(* written here in pieces), and its parent (a sequence of none or one).    *)
(***************************************************************************)
MaxDeclarations == 2   \* declarations one decorator resolves to

Annotation == <<"@", "Annotation">>            \* the text '@Annotation'

\* String.prototype.includes: pattern occurs in text as a contiguous run.
includes(text, pattern) ==
    \E i \in 0..(Len(text) - Len(pattern)) :
        \A j \in 1..Len(pattern) : text[i + j] = pattern[j]

DeclNode(kind, comments, parent) ==
    [kind |-> kind, comments |-> comments, parent |-> parent]

\* Leading comments a node's full text may carry.
NoComment == <<>>
MarkedComment == <<Annotation>>                          \* /** @Annotation */
NearMissComment == <<<<"@", "x", "Annotation">>>>        \* /** @xAnnotation */
EmbeddedComment == <<<<"x">>, <<"x", "@", "Annotation", "s">>>>
CommentChoices == {NoComment, MarkedComment, NearMissComment, EmbeddedComment}
FewCommentChoices == {NoComment, MarkedComment}

VariableStatements == {DeclNode("VariableStatement", c, <<>>) : c \in CommentChoices}
VariableDeclarationLists ==
    {DeclNode("VariableDeclarationList", c, p) :
        c \in FewCommentChoices, p \in {<<>>} \cup {<<s>> : s \in VariableStatements}}
DeclarationChoices ==
    {DeclNode("FunctionDeclaration", c, <<>>) : c \in CommentChoices}
    \cup {DeclNode("VariableDeclaration", c, p) :
            c \in FewCommentChoices,
            p \in {<<>>} \cup {<<l>> : l \in VariableDeclarationLists}}

\* A commentNode that stays at the declaration itself.
commentNodeNoClimb(d) == <<d>>

\* The node whose leading comments shouldLower reads for declaration d: none
\* (the loop continues) when a parent it has to climb to is missing.
commentNode(d) ==
    LET first == IF d.kind = "VariableDeclaration" THEN d.parent ELSE <<d>>
    IN  IF first # <<>> /\ first[1].kind = "VariableDeclarationList"
        THEN first[1].parent
        ELSE first

\* getDecoratorDeclarations(decorator, typeChecker): the type checker's answer,
\* which the decorator node carries here.
getDecoratorDeclarations(decorator) == decorator.declarations

shouldLower(decorator) ==
    \E i \in 1..Len(getDecoratorDeclarations(decorator)) :
        LET node == commentNode(getDecoratorDeclarations(decorator)[i])
        IN  /\ node # <<>>
            /\ \E r \in 1..Len(node[1].comments) : includes(node[1].comments[r], Annotation)

Returned(v) == [kind |-> "returned", value |-> v]

LowerInit ==
    /\ lowerInput \in {[declarations |-> ds] :
                           ds \in SeqUpTo(DeclarationChoices, MaxDeclarations)}
    /\ lowerResult = NotReturned
    /\ pc = "idle" /\ tsicklePasses = <<>> /\ preEmitDiagnostics = <<>>
    /\ emitDiagnostics = <<>> /\ allDiagnostics = <<>> /\ allDiagnostics0 = <<>>
    /\ program = <<>> /\ calls = <<>> /\ result = NotReturned
    /\ FilesIdle /\ HostIdle /\ TranslatorIdle /\ MainIdle /\ ConverterIdle
    /\ sourceFile = <<>> /\ converted = NotReturned

ShouldLower ==
    /\ lowerResult = NotReturned
    /\ lowerResult' = Returned(shouldLower(lowerInput))
    /\ UNCHANGED <<lowerInput, pipelineVars, decoratorVars, fileVars, hostVars, translatorVars,
                   mainVars, converterVars>>

LowerNext == ShouldLower

LowerSpec == LowerInit /\ [][LowerNext]_vars

\* Where the claim looks for the comment of declaration d: at the enclosing
\* variable statement for a variable declaration, at d itself otherwise.
IsLeadingCommentHolder(d, holder) ==
    IF d.kind = "VariableDeclaration"
    THEN /\ d.parent # <<>>
         /\ d.parent[1].parent # <<>>
         /\ holder = d.parent[1].parent[1]
         /\ holder.kind = "VariableStatement"
    ELSE holder = d

HasAnnotationComment(holder) ==
    \E r \in 1..Len(holder.comments) : includes(holder.comments[r], Annotation)

\* C6: a decorator is classified as lowerable exactly when, for one of the
\* declarations it resolves to, the leading comment of the declaration (of the
\* enclosing variable statement when it is a variable declaration) contains
\* '@Annotation'; otherwise it is classified as runtime.
C6_LowerableIffAnnotationComment ==
    lowerResult # NotReturned =>
        (lowerResult.value <=>
            \E i \in 1..Len(lowerInput.declarations) :
                \E holder \in VariableStatements \cup {lowerInput.declarations[i]} :
                    /\ IsLeadingCommentHolder(lowerInput.declarations[i], holder)
                    /\ HasAnnotationComment(holder))

\* The second declaration decides, and it is a variable declaration whose own
\* comment is not the one that counts.
C6_Witness ==
    /\ lowerResult = Returned(TRUE)
    /\ Len(lowerInput.declarations) = 2
    /\ ~shouldLower([declarations |-> <<lowerInput.declarations[1]>>])
    /\ lowerInput.declarations[2].kind = "VariableDeclaration"
    /\ lowerInput.declarations[2].comments = NoComment

(***************************************************************************)
(* Source files as the TypeScript parser hands them to convertDecorators   *)
(*                                                                         *)
(* The text is a sequence of characters; every token is one character and  *)
(* is preceded by one character of trivia (white space).  A node carries   *)
(* its kind, pos (getFullStart), start (getStart), end (getEnd) and its    *)
(* children in forEachChild order; an Identifier carries its text, a       *)
(* Decorator the declarations it resolves to, a TypeReference the symbol   *)
(* of its type.  Offsets count from 0, so text[p + 1] is the character at  *)
(* offset p.                                                               *)
(***************************************************************************)
MaxNodes == 4     \* decorators + parameters + members of one source file
MaxNesting == 2   \* classes nested in one another, the outermost included
MaxParameters == 2  \* parameters of the constructor of a file with an import

Syntax(kind, text, declarations, symbol, parts) ==
    [kind |-> kind, text |-> text, declarations |-> declarations,
     symbol |-> symbol, parts |-> parts]
Token(text) == Syntax("Token", text, <<>>, "", <<>>)
Identifier(text) == Syntax("Identifier", text, <<>>, "", <<>>)

RECURSIVE LayoutNode(_, _), LayoutParts(_, _)
\* The node for syntax n laid out from offset at, and the text it covers.
LayoutNode(n, at) ==
    LET leaf == n.parts = <<>>
        eof == n.kind = "EndOfFileToken"
        laid == LayoutParts(n.parts, at)
    IN  [node |-> [kind |-> n.kind, text |-> n.text, declarations |-> n.declarations,
                   symbol |-> n.symbol, pos |-> at, start |-> at + 1,
                   end |-> IF eof THEN at + 1 ELSE IF leaf THEN at + 2 ELSE laid.end,
                   children |-> laid.children],
         text |-> IF eof THEN <<"\n">> ELSE IF leaf THEN <<" ", n.text>> ELSE laid.text]

LayoutParts(parts, at) ==
    IF parts = <<>>
    THEN [children |-> <<>>, text |-> <<>>, end |-> at]
    ELSE LET head == LayoutNode(parts[1], at)
             rest == LayoutParts(Tail(parts), head.node.end)
         IN  [children |-> (IF parts[1].kind = "Token" THEN <<>> ELSE <<head.node>>)
                           \o rest.children,
              text |-> head.text \o rest.text,
              end |-> rest.end]

\* ---- the decorators, types and member names the source files are built from ----
AnnotationFunction == <<DeclNode("FunctionDeclaration", MarkedComment, <<>>)>>
PlainFunction == <<DeclNode("FunctionDeclaration", NoComment, <<>>)>>
AnnotationConst ==
    <<DeclNode("VariableDeclaration", NoComment,
               <<DeclNode("VariableDeclarationList", NoComment,
                          <<DeclNode("VariableStatement", MarkedComment, <<>>)>>)>>)>>

\* @Ann and @Plain, the decorators of parameters and members.
DecoratorChoices ==
    { Syntax("Decorator", "", AnnotationFunction, "", <<Token("@"), Identifier("Ann")>>),
      Syntax("Decorator", "", PlainFunction, "", <<Token("@"), Identifier("Plain")>>) }

\* A class is decorated with these or with @Comp(arg).
ClassDecoratorChoices ==
    DecoratorChoices
    \cup { Syntax("Decorator", "", AnnotationConst, "",
                 <<Token("@"),
                   Syntax("CallExpression", "", <<>>, "",
                          <<Identifier("Comp"), Token("("), Identifier("arg"), Token(")")>>)>>) }

\* The type of a parameter: none, the file's class, an interface, or a class
\* declared in another file.
TypeChoices == {"", "C1", "Iface", "Ext"}
\* The symbols whose flags include ts.SymbolFlags.Value.
ValueSymbols == {"C1", "Ext"}

\* A member: property a, method b, or a property with the computed name [k].
MemberChoices == {"a", "b", "[k]"}

ParameterSyntax(decorators, type) ==
    Syntax("Parameter", "", <<>>, "",
           decorators \o <<Identifier("p")>>
           \o (IF type = "" THEN <<>>
               ELSE <<Token(":"), Syntax("TypeReference", type, <<>>, type, <<>>)>>))

ConstructorSyntax(parameters) ==
    Syntax("Constructor", "", <<>>, "",
           <<Token("constructor"), Token("(")>> \o parameters \o <<Token(")"), Token(";")>>)

MemberSyntax(decorators, name) ==
    Syntax(IF name = "b" THEN "MethodDeclaration" ELSE "PropertyDeclaration", "", <<>>, "",
           decorators
           \o <<IF name = "[k]"
                THEN Syntax("ComputedPropertyName", "", <<>>, "",
                            <<Token("["), Identifier("k"), Token("]")>>)
                ELSE Identifier(name)>>
           \o <<Token(";")>>)

\* closed: the class text ends with its closing brace.
ClassSyntax(name, decorators, body, closed) ==
    Syntax("ClassDeclaration", "", <<>>, "",
           decorators \o <<Token("class"), Identifier(name), Token("{")>> \o body
           \o (IF closed THEN <<Token("}")>> ELSE <<>>))

SourceFileSyntax(classes) ==
    Syntax("SourceFile", "", <<>>, "",
           classes \o <<Syntax("EndOfFileToken", "", <<>>, "", <<>>)>>)

\* The ts.SourceFile of the classes: the root node, whose text is the file's.
ParseSourceFile(classes) ==
    LET laid == LayoutNode(SourceFileSyntax(classes), 0)
    IN  [laid.node EXCEPT !.text = laid.text]

\* ---- source files with a given number of decorators, parameters and members ----
\* A node weighs one more than the decorators it carries.  Each table below
\* lists, at index n + 1, the lists that weigh n together.
DecoratorLists(n) == [1..n -> DecoratorChoices]
ClassDecoratorLists(n) == [1..n -> ClassDecoratorChoices]

RECURSIVE ParameterLists(_), MemberLists(_)
ParameterLists(n) ==
    IF n = 0 THEN <<{<<>>}>>
    ELSE LET lighter == ParameterLists(n - 1)
         IN  Append(lighter,
                    UNION {{<<ParameterSyntax(d, t)>> \o rest :
                               d \in DecoratorLists(k - 1), t \in TypeChoices,
                               rest \in lighter[n - k + 1]} : k \in 1..n})

MemberLists(n) ==
    IF n = 0 THEN <<{<<>>}>>
    ELSE LET lighter == MemberLists(n - 1)
         IN  Append(lighter,
                    UNION {{<<MemberSyntax(d, m)>> \o rest :
                               d \in DecoratorLists(k - 1), m \in MemberChoices,
                               rest \in lighter[n - k + 1]} : k \in 1..n})

\* No constructor, or one with parameters weighing n.
ConstructorOptions(parameterLists, n) ==
    (IF n = 0 THEN {<<>>} ELSE {})
    \cup {<<ConstructorSyntax(ps)>> : ps \in parameterLists[n + 1]}

\* file is a source file with one class C1 that weighs at most max.
IsSourceFileUpTo(file, max) ==
    LET parameterLists == ParameterLists(max)
        memberLists == MemberLists(max)
    IN  \E w \in {v \in (0..max) \X (0..max) \X (0..max) : v[1] + v[2] + v[3] <= max} :
            \E d \in ClassDecoratorLists(w[1]),
               c \in ConstructorOptions(parameterLists, w[2]),
               ms \in memberLists[w[3] + 1], closed \in BOOLEAN :
                file = ParseSourceFile(<<ClassSyntax("C1", d, c \o ms, closed)>>)

(***************************************************************************)
(* convertDecorators: the decorator downleveler                            *)
(*                                                                         *)
(* The state of a DecoratorRewriter is a record rw:                        *)
(*   file         the source file being rewritten                          *)
(*   output       the pieces written so far, each copied from the input    *)
(*                range [from, to) or emitted as synthetic text            *)
(*   diagnostics  the diagnostics recorded so far                          *)
(*   currentDecoratorConverter  the DecoratorClassVisitor of the class     *)
(*                being visited                                            *)
(*   visitors     every DecoratorClassVisitor whose class has been         *)
(*                visited, with the fields it ended with                   *)
(* An optional field is a record [set, value]; set is FALSE when the       *)
(* field is undefined.                                                     *)
(***************************************************************************)
Unset == [set |-> FALSE, value |-> <<>>]
Some(v) == [set |-> TRUE, value |-> v]

NoVisitor ==
    [active |-> FALSE, classDecl |-> 0, importedNames |-> <<>>, decorators |-> Unset,
     ctorParameters |-> Unset, propDecorators |-> Unset]

\* The class declaration of the file whose name is the identifier of sym, if any.
ValueDeclaration(file, sym) ==
    SelectSeq(file.children,
              LAMBDA c : /\ c.kind = "ClassDeclaration"
                         /\ \E i \in 1..Len(c.children) :
                               /\ c.children[i].kind = "Identifier"
                               /\ c.children[i].text = sym)

\* The identifier the file imports the symbol under: the last identifier of
\* the import specifier that names it.
localImportAlias(file, sym) ==
    LET imports == SelectSeq(file.children,
                             LAMBDA c : /\ c.kind = "ImportDeclaration"
                                        /\ \E i \in 1..Len(c.children) :
                                              /\ c.children[i].kind = "ImportSpecifier"
                                              /\ c.children[i].symbol = sym)
    IN  IF imports = <<>> THEN <<>>
        ELSE LET specifier == SelectSeq(imports[1].children,
                                        LAMBDA c : /\ c.kind = "ImportSpecifier"
                                                   /\ c.symbol = sym)[1]
             IN  <<specifier.children[Len(specifier.children)]>>

\* TypeTranslator.symbolToString(sym, useFqn) of a translator made for a node
\* of the file: the identifier of the value declaration in the file, else the
\* local alias the file imports the symbol under, else "?".
symbolToString(file, sym) ==
    LET declared == ValueDeclaration(file, sym)
        alias == localImportAlias(file, sym)
    IN  IF declared # <<>>
        THEN SelectSeq(declared[1].children, LAMBDA c : c.kind = "Identifier")[1].text
        ELSE IF alias # <<>> THEN alias[1].text
        ELSE "?"

\* The DecoratorRewriter of a file.  typeChecker holds what the rewriter asks
\* of its ts.TypeChecker: for each value symbol, the string a TypeTranslator
\* of this file prints for it.
NewRewriter(file) ==
    [file |-> file, output |-> <<>>, diagnostics |-> <<>>,
     typeChecker |-> [sym \in ValueSymbols |-> symbolToString(file, sym)],
     currentDecoratorConverter |-> NoVisitor, visitors |-> <<>>]

\* ---- Rewriter ----
emit(rw, str) ==
    [rw EXCEPT !.output = Append(@, [src |-> "emit", from |-> 0, to |-> 0, text |-> str])]

\* file.text.slice(from, to) is empty when to <= from, and nothing is written.
writeRange(rw, from, to) ==
    LET text == SubSeq(rw.file.text, from + 1, to)
    IN  IF text = <<>> THEN rw
        ELSE [rw EXCEPT !.output =
                 Append(@, [src |-> "copy", from |-> from, to |-> to, text |-> text])]

error(rw, node, messageText) ==
    [rw EXCEPT !.diagnostics =
        Append(@, [start |-> node.start, length |-> node.end - node.start,
                   messageText |-> messageText])]

errorUnimplementedKind(rw, node, where) ==
    error(rw, node, <<node.kind, " not implemented in ", where>>)

\* ---- DecoratorClassVisitor: gathering ----
Decorators(node) == SelectSeq(node.children, LAMBDA c : c.kind = "Decorator")
Parameters(ctor) == SelectSeq(ctor.children, LAMBDA c : c.kind = "Parameter")
ParameterType(param) == SelectSeq(param.children, LAMBDA c : c.kind = "TypeReference")
MemberName(member) ==
    SelectSeq(member.children,
              LAMBDA c : c.kind \in {"Identifier", "ComputedPropertyName"})

decoratorsToLower(n) == SelectSeq(Decorators(n), shouldLower)

\* A constructor that keeps every class decorator once one is to be lowered.
NewDecoratorClassVisitorKeepAll(classDecl) ==
    [NoVisitor EXCEPT
        !.active = TRUE,
        !.classDecl = classDecl.pos,
        !.decorators = IF Len(decoratorsToLower(classDecl)) > 0
                       THEN Some(Decorators(classDecl)) ELSE Unset]

NewDecoratorClassVisitor(classDecl) ==
    LET toLower == decoratorsToLower(classDecl)
    IN  [NoVisitor EXCEPT
            !.active = TRUE,
            !.classDecl = classDecl.pos,
            !.decorators = IF Decorators(classDecl) # <<>> /\ Len(toLower) > 0
                           THEN Some(toLower) ELSE Unset]

\* One iteration of the loop over ctor.parameters: acc.ctorParameters is the
\* list so far, acc.hasDecoratedParam the flag as the iteration finds it.
GatherParameter(typeChecker, acc, param) ==
    LET decorators == IF Decorators(param) # <<>>
                      THEN Some(decoratorsToLower(param)) ELSE Unset
        hasDecoratedParam == IF Decorators(param) # <<>>
                             THEN Len(decorators.value) > 0
                             ELSE acc.hasDecoratedParam
        type == ParameterType(param)
        paramCtor == IF type # <<>> /\ type[1].symbol \in ValueSymbols
                     THEN Some(<<type[1].symbol, typeChecker[type[1].symbol]>>)
                     ELSE Unset
        entry == IF paramCtor.set \/ decorators.set
                 THEN [isNull |-> FALSE, ctor |-> paramCtor, decorators |-> decorators]
                 ELSE [isNull |-> TRUE, ctor |-> Unset, decorators |-> Unset]
    IN  [ctorParameters |-> Append(acc.ctorParameters, entry),
         hasDecoratedParam |-> hasDecoratedParam]

RECURSIVE GatherParameters(_, _, _, _)
GatherParameters(typeChecker, acc, params, i) ==
    IF i > Len(params) THEN acc
    ELSE GatherParameters(typeChecker, GatherParameter(typeChecker, acc, params[i]),
                          params, i + 1)

\* typeChecker is this.typeChecker, the one of the rewriter.
gatherConstructor(visitor, typeChecker, ctor) ==
    LET gathered == GatherParameters(typeChecker,
                                     [ctorParameters |-> <<>>, hasDecoratedParam |-> FALSE],
                                     Parameters(ctor), 1)
    IN  IF visitor.decorators.set \/ gathered.hasDecoratedParam
        THEN [visitor EXCEPT !.ctorParameters = Some(gathered.ctorParameters)]
        ELSE visitor

\* Map.set: a new key goes last, an existing key keeps its place.
MapSet(map, name, value) ==
    IF \E i \in 1..Len(map) : map[i].name = name
    THEN [i \in 1..Len(map) |->
             IF map[i].name = name THEN [name |-> name, decorators |-> value] ELSE map[i]]
    ELSE Append(map, [name |-> name, decorators |-> value])

StrangelyNamed == <<"cannot process decorators on strangely named method">>

\* A gatherMethodOrProperty that records a strangely named member under the
\* kind of its name.
gatherMethodOrPropertyAnyName(rw, method) ==
    LET name == MemberName(method)
        decorators == decoratorsToLower(method)
        visitor == rw.currentDecoratorConverter
    IN  IF Decorators(method) = <<>> \/ Len(decorators) = 0 THEN rw
        ELSE [rw EXCEPT !.currentDecoratorConverter.propDecorators =
                 Some(MapSet(visitor.propDecorators.value,
                             IF name[1].kind = "Identifier" THEN name[1].text
                             ELSE name[1].kind,
                             decorators))]

gatherMethodOrProperty(rw, method) ==
    LET name == MemberName(method)
        decorators == decoratorsToLower(method)
        visitor == rw.currentDecoratorConverter
    IN  IF Decorators(method) = <<>> THEN rw
        ELSE IF name = <<>> \/ name[1].kind # "Identifier"
        THEN error(rw, method, StrangelyNamed)
        ELSE IF Len(decorators) = 0 THEN rw
        ELSE [rw EXCEPT !.currentDecoratorConverter.propDecorators =
                 Some(MapSet(visitor.propDecorators.value, name[1].text, decorators))]

beforeProcessNode(rw, node) ==
    IF node.kind = "Constructor"
    THEN [rw EXCEPT !.currentDecoratorConverter = gatherConstructor(@, rw.typeChecker, node)]
    ELSE IF node.kind \in {"PropertyDeclaration", "SetAccessor", "GetAccessor",
                           "MethodDeclaration"}
    THEN gatherMethodOrProperty(rw, node)
    ELSE rw

\* A maybeProcessDecorator that writes the lowered decorator along with the
\* text before it.
maybeProcessDecoratorWritten(rw, node) ==
    IF shouldLower(node)
    THEN [rw |-> writeRange(rw, node.pos, node.end), handled |-> TRUE]
    ELSE [rw |-> rw, handled |-> FALSE]

\* The result has handled, what maybeProcessDecorator returns.
maybeProcessDecorator(rw, node) ==
    IF shouldLower(node)
    THEN [rw |-> writeRange(rw, node.pos, node.start), handled |-> TRUE]
    ELSE [rw |-> rw, handled |-> FALSE]

\* ---- DecoratorClassVisitor: emitting, and the DecoratorRewriter ----
\* A lookup that consults importedNames only, never the file itself.
getValueIdentifierForTypeImportedOnly(rw, typeSymbol) ==
    LET imported == SelectSeq(rw.currentDecoratorConverter.importedNames,
                              LAMBDA n : typeSymbol \in n.declarationNames)
    IN  IF typeSymbol \notin ValueSymbols THEN <<>>
        ELSE IF imported # <<>> THEN <<imported[1].name>>
        ELSE <<>>

\* The identifier to emit for the symbol, or <<>> for null.  A symbol of
\* ValueSymbols has a value declaration named by an identifier: in this file,
\* or else in another one.  importedNames is that of the visitor, a list of
\* [name, declarationNames]; maybeProcess constructs every visitor with [].
getValueIdentifierForType(rw, typeSymbol) ==
    LET valueDeclaration == ValueDeclaration(rw.file, typeSymbol)
        imported == SelectSeq(rw.currentDecoratorConverter.importedNames,
                              LAMBDA n : typeSymbol \in n.declarationNames)
    IN  IF typeSymbol \notin ValueSymbols THEN <<>>
        ELSE IF valueDeclaration # <<>>
        THEN SelectSeq(valueDeclaration[1].children, LAMBDA c : c.kind = "Identifier")
        ELSE IF imported # <<>> THEN <<imported[1].name>>
        ELSE <<>>

decoratorInvocations == "{type: Function, args?: any[]}[]"

Expression(decorator) ==
    SelectSeq(decorator.children, LAMBDA c : c.kind # "Decorator")[1]

RECURSIVE visit(_, _), writeNode(_, _), writeNodeFrom(_, _, _, _),
          WriteChildren(_, _, _, _), maybeProcess(_, _),
          visitClassContentIncludingDecorators(_, _),
          emitMetadataAsStaticProperties(_), emitDecorator(_, _),
          EmitArguments(_, _, _), EmitDecorators(_, _, _, _),
          EmitCtorParameters(_, _, _), EmitPropDecorators(_, _, _)

visit(rw, node) ==
    LET processed == maybeProcess(rw, node)
    IN  IF processed.handled THEN processed.rw ELSE writeNode(processed.rw, node)

writeNode(rw, node) == writeNodeFrom(rw, node, node.pos, node.end)

\* forEachChild: the text since the previous child, then the child.
WriteChildren(rw, children, i, pos) ==
    IF i > Len(children) THEN [rw |-> rw, pos |-> pos]
    ELSE WriteChildren(visit(writeRange(rw, pos, children[i].pos), children[i]),
                       children, i + 1, children[i].end)

writeNodeFrom(rw, node, pos, end) ==
    LET written == WriteChildren(rw, node.children, 1, pos)
    IN  writeRange(written.rw, written.pos, end)

\* call.arguments from the i-th on
EmitArguments(rw, arguments, i) ==
    IF i > Len(arguments) THEN rw
    ELSE EmitArguments(
             emit(writeNodeFrom(rw, arguments[i], arguments[i].start, arguments[i].end),
                  <<", ">>),
             arguments, i + 1)

\* An emitDecorator that writes the args key for every call.
emitDecoratorArgsForEveryCall(rw, decorator) ==
    LET expr == Expression(decorator)
        opened == emit(rw, <<"{ type: ">>)
        body ==
            IF expr.kind = "Identifier" THEN visit(opened, expr)
            ELSE IF expr.kind = "CallExpression"
            THEN emit(EmitArguments(emit(visit(opened, expr.children[1]), <<", args: [">>),
                                    Tail(expr.children), 1),
                      <<"]">>)
            ELSE emit(errorUnimplementedKind(opened, expr, "gathering metadata"),
                      <<"undefined">>)
    IN  emit(body, <<" }">>)

emitDecorator(rw, decorator) ==
    LET expr == Expression(decorator)
        opened == emit(rw, <<"{ type: ">>)
        body ==
            IF expr.kind = "Identifier" THEN visit(opened, expr)
            ELSE IF expr.kind = "CallExpression"
            THEN LET callee == visit(opened, expr.children[1])
                     arguments == Tail(expr.children)
                 IN  IF Len(arguments) > 0
                     THEN emit(EmitArguments(emit(callee, <<", args: [">>), arguments, 1),
                               <<"]">>)
                     ELSE callee
            ELSE emit(errorUnimplementedKind(opened, expr, "gathering metadata"),
                      <<"undefined">>)
    IN  emit(body, <<" }">>)

\* emitDecorator and the separator, for the decorators from the i-th on
EmitDecorators(rw, decorators, i, separator) ==
    IF i > Len(decorators) THEN rw
    ELSE EmitDecorators(emit(emitDecorator(rw, decorators[i]), <<separator>>),
                        decorators, i + 1, separator)

EmitCtorParameters(rw, ctorParameters, i) ==
    IF i > Len(ctorParameters) THEN rw
    ELSE LET param == ctorParameters[i]
             opened == emit(rw, <<"{type: ">>)
             emitNode == IF param.ctor.set
                         THEN getValueIdentifierForType(rw, param.ctor.value[1])
                         ELSE <<>>
             type == IF ~param.ctor.set THEN emit(opened, <<"undefined">>)
                     ELSE IF emitNode # <<>>
                     THEN writeRange(opened, emitNode[1].start, emitNode[1].end)
                     ELSE emit(opened, <<param.ctor.value[2]>>)
             comma == emit(type, <<", ">>)
             decorators ==
                 IF param.decorators.set
                 THEN emit(EmitDecorators(emit(comma, <<"decorators: [">>),
                                          param.decorators.value, 1, ", "),
                           <<"]">>)
                 ELSE comma
         IN  EmitCtorParameters(
                 IF param.isNull THEN emit(rw, <<"null,\n">>)
                 ELSE emit(decorators, <<"},\n">>),
                 ctorParameters, i + 1)

EmitPropDecorators(rw, propDecorators, i) ==
    IF i > Len(propDecorators) THEN rw
    ELSE EmitPropDecorators(
             emit(EmitDecorators(emit(rw, <<"\"", propDecorators[i].name, "\": [">>),
                                 propDecorators[i].decorators, 1, ","),
                  <<"],\n">>),
             propDecorators, i + 1)

emitMetadataAsStaticProperties(rw) ==
    LET visitor == rw.currentDecoratorConverter
        decorators ==
            IF visitor.decorators.set
            THEN emit(EmitDecorators(
                          emit(rw, <<"static decorators: ", decoratorInvocations, " = [\n">>),
                          visitor.decorators.value, 1, ",\n"),
                      <<"];\n">>)
            ELSE rw
        ctorParameters ==
            IF visitor.decorators.set \/ visitor.ctorParameters.set
            THEN emit(EmitCtorParameters(
                          emit(emit(decorators, <<"/** @nocollapse */\n">>),
                               <<"static ctorParameters: () => ({type: any, decorators?: ",
                                 decoratorInvocations, "}|null)[] = () => [\n">>),
                          visitor.ctorParameters.value, 1),
                      <<"];\n">>)
            ELSE decorators
    IN  IF visitor.propDecorators.set
        THEN emit(EmitPropDecorators(
                      emit(ctorParameters,
                           <<"static propDecorators: {[key: string]: ",
                             decoratorInvocations, "} = {\n">>),
                      visitor.propDecorators.value, 1),
                  <<"};\n">>)
        ELSE ctorParameters

UnexpectedTerminator == <<"unexpected class terminator">>

\* A visitClassContentIncludingDecorators that emits the metadata after the
\* closing brace.
visitClassContentThenMetadata(rw, classDecl) ==
    IF rw.file.text[classDecl.end] # "}"
    THEN error(rw, classDecl, UnexpectedTerminator)
    ELSE emitMetadataAsStaticProperties(
             writeRange(writeNodeFrom(rw, classDecl, classDecl.start, classDecl.end - 1),
                        classDecl.end - 1, classDecl.end))

visitClassContentIncludingDecorators(rw, classDecl) ==
    IF rw.file.text[classDecl.end] # "}"
    THEN error(rw, classDecl, UnexpectedTerminator)
    ELSE writeRange(
             emitMetadataAsStaticProperties(
                 writeNodeFrom(rw, classDecl, classDecl.start, classDecl.end - 1)),
             classDecl.end - 1, classDecl.end)

\* A maybeProcess that leaves the visitor of the class installed when the
\* class has been visited.
maybeProcessNoRestore(rw, node) ==
    LET before == IF rw.currentDecoratorConverter.active
                  THEN beforeProcessNode(rw, node) ELSE rw
    IN  IF node.kind = "Decorator"
        THEN IF before.currentDecoratorConverter.active
             THEN maybeProcessDecorator(before, node)
             ELSE [rw |-> before, handled |-> FALSE]
        ELSE IF node.kind = "ClassDeclaration"
        THEN LET visited ==
                     visitClassContentIncludingDecorators(
                         writeRange([before EXCEPT !.currentDecoratorConverter =
                                        NewDecoratorClassVisitor(node)],
                                    node.pos, node.start),
                         node)
             IN  [rw |-> [visited EXCEPT
                             !.visitors = Append(@, visited.currentDecoratorConverter)],
                  handled |-> TRUE]
        ELSE [rw |-> before, handled |-> FALSE]

\* The result has handled, what maybeProcess returns.
maybeProcess(rw, node) ==
    LET before == IF rw.currentDecoratorConverter.active
                  THEN beforeProcessNode(rw, node) ELSE rw
    IN  IF node.kind = "Decorator"
        THEN IF before.currentDecoratorConverter.active
             THEN maybeProcessDecorator(before, node)
             ELSE [rw |-> before, handled |-> FALSE]
        ELSE IF node.kind = "ClassDeclaration"
        THEN LET oldDecoratorConverter == before.currentDecoratorConverter
                 visited ==
                     visitClassContentIncludingDecorators(
                         writeRange([before EXCEPT !.currentDecoratorConverter =
                                        NewDecoratorClassVisitor(node)],
                                    node.pos, node.start),
                         node)
             IN  [rw |-> [visited EXCEPT
                             !.visitors = Append(@, visited.currentDecoratorConverter),
                             !.currentDecoratorConverter = oldDecoratorConverter],
                  handled |-> TRUE]
        ELSE [rw |-> before, handled |-> FALSE]

\* DecoratorRewriter.process
process(file) == visit(NewRewriter(file), file)

convertDecorators(file) ==
    LET rw == process(file)
    IN  [kind |-> "returned", output |-> rw.output, diagnostics |-> rw.diagnostics,
         visitors |-> rw.visitors,
         currentDecoratorConverter |-> rw.currentDecoratorConverter]

DecoratorInit ==
    /\ IsSourceFileUpTo(sourceFile, MaxNodes)
    /\ converted = NotReturned
    /\ lowerInput = [declarations |-> <<>>] /\ lowerResult = NotReturned
    /\ pc = "idle" /\ tsicklePasses = <<>> /\ preEmitDiagnostics = <<>>
    /\ emitDiagnostics = <<>> /\ allDiagnostics = <<>> /\ allDiagnostics0 = <<>>
    /\ program = <<>> /\ calls = <<>> /\ result = NotReturned
    /\ FilesIdle /\ HostIdle /\ TranslatorIdle /\ MainIdle /\ ConverterIdle

ConvertDecorators ==
    /\ converted = NotReturned
    /\ converted' = convertDecorators(sourceFile)
    /\ UNCHANGED <<sourceFile, pipelineVars, lowerVars, fileVars, hostVars, translatorVars,
                   mainVars, converterVars>>

DecoratorNext == ConvertDecorators

DecoratorSpec == DecoratorInit /\ [][DecoratorNext]_vars

(***************************************************************************)
(* What the claims about convertDecorators speak of                        *)
(***************************************************************************)
Range(seq) == {seq[i] : i \in DOMAIN seq}

ClassDeclarations(file) == {c \in Range(file.children) : c.kind = "ClassDeclaration"}
Constructors(class) == {m \in Range(class.children) : m.kind = "Constructor"}
Members(class) ==
    {m \in Range(class.children) :
        m.kind \in {"PropertyDeclaration", "MethodDeclaration", "GetAccessor", "SetAccessor"}}
ConstructorParameters(class) == UNION {Range(Parameters(ctor)) : ctor \in Constructors(class)}
ClassDecorators(class) == Range(Decorators(class))
ParameterDecorators(class) ==
    UNION {Range(Decorators(param)) : param \in ConstructorParameters(class)}
MemberDecorators(class) == UNION {Range(Decorators(m)) : m \in Members(class)}
AllDecorators(class) ==
    ClassDecorators(class) \cup ParameterDecorators(class) \cup MemberDecorators(class)

\* The class text ends in "}".
EndsInBrace(file, class) == file.text[class.end] = "}"

\* The DecoratorClassVisitor that visited the class, as it ended.
VisitorOf(class) ==
    CHOOSE v \in Range(converted.visitors) : v.classDecl = class.pos

Emitted(piece, text) == piece.src = "emit" /\ piece.text = text
\* The copied piece covers the character at the offset.
Copies(piece, offset) == piece.src = "copy" /\ piece.from <= offset /\ offset < piece.to

StaticDecorators == <<"static decorators: ", decoratorInvocations, " = [\n">>
StaticCtorParameters ==
    <<"static ctorParameters: () => ({type: any, decorators?: ",
      decoratorInvocations, "}|null)[] = () => [\n">>
StaticPropDecorators ==
    <<"static propDecorators: {[key: string]: ", decoratorInvocations, "} = {\n">>

\* C4: for every class processed, metadata is recorded for it (decorators,
\* ctorParameters or propDecorators is set) if and only if one of its class
\* decorators, constructor-parameter decorators or member decorators is
\* marked @Annotation.
C4_MetadataIffAnnotation ==
    converted # NotReturned =>
        \A class \in ClassDeclarations(sourceFile) :
            (\/ VisitorOf(class).decorators.set
             \/ VisitorOf(class).ctorParameters.set
             \/ VisitorOf(class).propDecorators.set)
            <=> \E d \in AllDecorators(class) : shouldLower(d)

\* The entries of the static decorators field whose header is output[h]: the
\* separators emitted before the field is closed.
DecoratorsEntries(output, h) ==
    LET close == CHOOSE e \in h..Len(output) :
                     /\ Emitted(output[e], <<"];\n">>)
                     /\ \A k \in h..(e - 1) : ~Emitted(output[k], <<"];\n">>)
    IN  {k \in h..close : Emitted(output[k], <<",\n">>)}

HasStaticDecorators(output, count) ==
    \E h \in 1..Len(output) :
        /\ Emitted(output[h], StaticDecorators)
        /\ \E e \in h..Len(output) : Emitted(output[e], <<"];\n">>)
        /\ Cardinality(DecoratorsEntries(output, h)) = count

Copy(file, from, to) ==
    [src |-> "copy", from |-> from, to |-> to, text |-> SubSeq(file.text, from + 1, to)]

\* The pieces written while the children of a class ending in "}" are
\* visited: those before the first emitted piece and before the brace.
AfterBody(file, class, piece) ==
    piece.src = "emit" \/ piece = Copy(file, class.end - 1, class.end)

BodyLength(output, class) ==
    IF \E k \in 1..Len(output) : AfterBody(sourceFile, class, output[k])
    THEN (CHOOSE k \in 1..Len(output) :
              /\ AfterBody(sourceFile, class, output[k])
              /\ \A j \in 1..(k - 1) : ~AfterBody(sourceFile, class, output[j])) - 1
    ELSE Len(output)

\* output[i..j] copies the input range [from, to) piece after piece.
CopiedVerbatim(output, i, j, from, to) ==
    /\ output[i].src = "copy" /\ output[i].from = from
    /\ output[j].src = "copy" /\ output[j].to = to
    /\ \A k \in i..(j - 1) :
          /\ output[k + 1].src = "copy"
          /\ output[k + 1].from = output[k].to

\* A rewriter that is visiting the class and has written nothing yet.
VisitingClass(class) ==
    [NewRewriter(sourceFile) EXCEPT !.currentDecoratorConverter = VisitorOf(class)]

\* C7: when a decorator inside a class is visited: if it is lowerable, exactly
\* the input text between its full start and its start is written and the
\* decorator text itself is not written; if it is not lowerable,
\* maybeProcessDecorator writes nothing and reports not handled, and the
\* decorator is copied verbatim.
C7_LoweredDecoratorSuppressed ==
    converted # NotReturned =>
        \A class \in {c \in ClassDeclarations(sourceFile) : EndsInBrace(sourceFile, c)} :
            \A d \in AllDecorators(class) :
                LET output == converted.output
                    body == BodyLength(output, class)
                    processed == maybeProcessDecorator(VisitingClass(class), d)
                IN  IF shouldLower(d)
                    THEN /\ processed.handled
                         /\ processed.rw.output = <<Copy(sourceFile, d.pos, d.start)>>
                         /\ \E k \in 1..body : output[k] = Copy(sourceFile, d.pos, d.start)
                         /\ \A k \in 1..body :
                               (output[k].from < d.end /\ output[k].to > d.pos)
                               => output[k] = Copy(sourceFile, d.pos, d.start)
                         /\ \A k \in 1..Len(output) : ~Copies(output[k], d.start)
                    ELSE /\ ~processed.handled
                         /\ processed.rw.output = <<>>
                         /\ \E i \in 1..body : \E j \in i..body :
                               CopiedVerbatim(output, i, j, d.pos, d.end)

\* A member with a lowerable decorator followed by one that is not.
C7_Witness ==
    /\ converted # NotReturned
    /\ \E class \in ClassDeclarations(sourceFile) :
          /\ EndsInBrace(sourceFile, class)
          /\ \E m \in Members(class) :
                /\ Len(Decorators(m)) = 2
                /\ shouldLower(Decorators(m)[1])
                /\ ~shouldLower(Decorators(m)[2])
                /\ \E k \in 1..Len(converted.output) :
                      converted.output[k]
                          = Copy(sourceFile, Decorators(m)[1].pos, Decorators(m)[1].start)

\* What emitMetadataAsStaticProperties emits for a visitor that ended as v.
MetadataBlock(class) == emitMetadataAsStaticProperties(VisitingClass(class)).output

\* C8: for every class declaration whose text ends in "}", the output is, in
\* this order: the class text from its start up to the final "}", without the
\* lowered decorators; then the static metadata block; then the final "}".
\* The metadata is emitted once, after all members and before the brace.
C8_MetadataBeforeClosingBrace ==
    converted # NotReturned =>
        \A class \in {c \in ClassDeclarations(sourceFile) : EndsInBrace(sourceFile, c)} :
            LET output == converted.output
                body == BodyLength(output, class)
                block == MetadataBlock(class)
                brace == body + Len(block) + 1
            IN  /\ body >= 1
                /\ \A k \in 1..body : output[k].to <= class.end - 1
                /\ output[body].to = class.end - 1
                /\ \A offset \in class.start..(class.end - 2) :
                      (\E k \in 1..body : Copies(output[k], offset))
                      <=> ~\E d \in AllDecorators(class) :
                              shouldLower(d) /\ d.start <= offset /\ offset < d.end
                /\ \A m \in Members(class) \cup Constructors(class) :
                      \E k \in 1..body : Copies(output[k], m.end - 1)
                /\ brace <= Len(output)
                /\ SubSeq(output, body + 1, brace - 1) = block
                /\ output[brace] = Copy(sourceFile, class.end - 1, class.end)
                /\ \A k \in 1..Len(output) :
                      /\ Copies(output[k], class.end - 1) => k = brace
                      /\ output[k].src = "emit" => k \in (body + 1)..(brace - 1)
                /\ \A header \in {StaticDecorators, StaticCtorParameters, StaticPropDecorators} :
                      Cardinality({k \in 1..Len(output) : Emitted(output[k], header)}) <= 1

\* A class with all three static fields in its metadata block.
C8_Witness ==
    /\ converted # NotReturned
    /\ \E class \in ClassDeclarations(sourceFile) :
          /\ EndsInBrace(sourceFile, class)
          /\ \A header \in {StaticDecorators, StaticCtorParameters, StaticPropDecorators} :
                \E k \in 1..Len(converted.output) : Emitted(converted.output[k], header)
          /\ converted.output[Len(converted.output) - 1]
                = Copy(sourceFile, class.end - 1, class.end)

StrangelyNamedMember(m) == MemberName(m)[1].kind # "Identifier"

\* C9: a visited class member with a computed name that carries lowerable
\* decorators produces a diagnostic and is skipped: no propDecorators entry
\* is recorded for it, and the members after it are still gathered.
C9_ComputedNameSkipped ==
    converted # NotReturned =>
        \A class \in {c \in ClassDeclarations(sourceFile) : EndsInBrace(sourceFile, c)} :
            \A m \in {n \in Members(class) :
                         StrangelyNamedMember(n) /\ Len(decoratorsToLower(n)) > 0} :
                LET propDecorators == VisitorOf(class).propDecorators.value
                IN  /\ \E i \in 1..Len(converted.diagnostics) :
                          converted.diagnostics[i] =
                              [start |-> m.start, length |-> m.end - m.start,
                               messageText |-> StrangelyNamed]
                    /\ \A i \in 1..Len(propDecorators) :
                          Range(propDecorators[i].decorators) \cap Range(Decorators(m)) = {}
                    /\ \A later \in {n \in Members(class) :
                                        /\ n.pos > m.pos
                                        /\ ~StrangelyNamedMember(n)
                                        /\ Len(decoratorsToLower(n)) > 0} :
                          \E i \in 1..Len(propDecorators) :
                              /\ propDecorators[i].name = MemberName(later)[1].text
                              /\ \E last \in Members(class) :
                                    /\ last.pos >= later.pos
                                    /\ ~StrangelyNamedMember(last)
                                    /\ MemberName(last)[1].text = propDecorators[i].name
                                    /\ propDecorators[i].decorators = decoratorsToLower(last)

\* @Ann [k]; @Ann a; -- the second member is recorded, the first is not.
C9_Witness ==
    /\ converted # NotReturned
    /\ \E class \in ClassDeclarations(sourceFile) :
          /\ EndsInBrace(sourceFile, class)
          /\ \E m \in Members(class), later \in Members(class) :
                /\ StrangelyNamedMember(m) /\ Len(decoratorsToLower(m)) > 0
                /\ later.pos > m.pos /\ ~StrangelyNamedMember(later)
                /\ Len(decoratorsToLower(later)) > 0
                /\ Len(converted.diagnostics) = 1
                /\ Len(VisitorOf(class).propDecorators.value) = 1

\* C10: a lowerable decorator on a visited member with a computed name gets a
\* diagnostic and is left untransformed: its original text is still present
\* in the output.
C10_UnsupportedDecoratorLeftInOutput ==
    converted # NotReturned =>
        \A class \in {c \in ClassDeclarations(sourceFile) : EndsInBrace(sourceFile, c)} :
            \A m \in {n \in Members(class) : StrangelyNamedMember(n)} :
                \A d \in {e \in Range(Decorators(m)) : shouldLower(e)} :
                    /\ \E i \in 1..Len(converted.diagnostics) :
                          /\ converted.diagnostics[i].start = m.start
                          /\ converted.diagnostics[i].messageText = StrangelyNamed
                    /\ \E i \in 1..Len(converted.output) : \E j \in i..Len(converted.output) :
                          CopiedVerbatim(converted.output, i, j, d.pos, d.end)

(***************************************************************************)
(* convertDecorators on classes whose decorators have every kind of        *)
(* expression: @F, @F(), @F(x), @F(x, y), ... and @(F), a kind that        *)
(* emitDecorator does not implement.                                       *)
(***************************************************************************)
MaxArguments == 2   \* arguments of one decorator call

ArgumentChoices == {Identifier("x"), Identifier("y")}

RECURSIVE ArgumentParts(_)
\* The arguments with the commas between them.
ArgumentParts(arguments) ==
    IF Len(arguments) <= 1 THEN arguments
    ELSE <<arguments[1], Token(",")>> \o ArgumentParts(Tail(arguments))

CallSyntax(arguments) ==
    Syntax("CallExpression", "", <<>>, "",
           <<Identifier("F"), Token("(")>> \o ArgumentParts(arguments) \o <<Token(")")>>)

ExpressionChoices ==
    {Identifier("F"),
     Syntax("ParenthesizedExpression", "", <<>>, "",
            <<Token("("), Identifier("F"), Token(")")>>)}
    \cup {CallSyntax(arguments) : arguments \in SeqUpTo(ArgumentChoices, MaxArguments)}

ExpressionDecoratorChoices ==
    {Syntax("Decorator", "", declarations, "", <<Token("@"), expression>>) :
        declarations \in {AnnotationFunction, PlainFunction},
        expression \in ExpressionChoices}

\* file is a source file with one class C1 that has one or two such
\* decorators and no member or the member @Ann [k].
IsExpressionSourceFile(file) ==
    \E first \in ExpressionDecoratorChoices,
       second \in {<<>>} \cup {<<d>> : d \in ExpressionDecoratorChoices},
       members \in {<<>>} \cup {<<MemberSyntax(<<d>>, "[k]")>> :
                                   d \in {e \in DecoratorChoices : shouldLower(e)}},
       closed \in BOOLEAN :
        file = ParseSourceFile(<<ClassSyntax("C1", <<first>> \o second, members, closed)>>)

ExpressionInit ==
    /\ IsExpressionSourceFile(sourceFile)
    /\ converted = NotReturned
    /\ lowerInput = [declarations |-> <<>>] /\ lowerResult = NotReturned
    /\ pc = "idle" /\ tsicklePasses = <<>> /\ preEmitDiagnostics = <<>>
    /\ emitDiagnostics = <<>> /\ allDiagnostics = <<>> /\ allDiagnostics0 = <<>>
    /\ program = <<>> /\ calls = <<>> /\ result = NotReturned
    /\ FilesIdle /\ HostIdle /\ TranslatorIdle /\ MainIdle /\ ConverterIdle

ExpressionSpec == ExpressionInit /\ [][DecoratorNext]_vars

EmitPiece(text) == [src |-> "emit", from |-> 0, to |-> 0, text |-> text]

\* The pieces seq occur in output one after the other.
OccursIn(output, seq) ==
    \E i \in 0..(Len(output) - Len(seq)) : SubSeq(output, i + 1, i + Len(seq)) = seq

\* What emitDecorator writes for decorator d of the class.
DecoratorEntry(class, d) == emitDecorator(VisitingClass(class), d).output

\* { type: F, args: [x, y, ] } for the call F(x, y)
EntryWithArgs(file, call) ==
    LET arguments == Tail(call.children)
    IN  <<EmitPiece(<<"{ type: ">>), Copy(file, call.children[1].pos, call.children[1].end),
          EmitPiece(<<", args: [">>)>>
        \o [k \in 1..(2 * Len(arguments)) |->
               IF k % 2 = 1
               THEN Copy(file, arguments[(k + 1) \div 2].start, arguments[(k + 1) \div 2].end)
               ELSE EmitPiece(<<", ">>)]
        \o <<EmitPiece(<<"]">>), EmitPiece(<<" }">>)>>

\* { type: F }
EntryWithoutArgs(file, callee) ==
    <<EmitPiece(<<"{ type: ">>), Copy(file, callee.pos, callee.end), EmitPiece(<<" }">>)>>

\* C11: emitDecorator emits an args key if and only if the decorator is a
\* call expression with at least one argument: @F and @F() give { type: F }
\* with no args key, and args lists all call arguments in source order.
C11_ArgsIffCallWithArguments ==
    converted # NotReturned =>
        \A class \in {c \in ClassDeclarations(sourceFile) : EndsInBrace(sourceFile, c)} :
            \A d \in {e \in ClassDecorators(class) : shouldLower(e)} :
                LET expr == Expression(d)
                    entry == DecoratorEntry(class, d)
                    called == expr.kind = "CallExpression" /\ Len(expr.children) > 1
                IN  /\ OccursIn(converted.output, entry)
                    /\ (\E k \in 1..Len(entry) : Emitted(entry[k], <<", args: [">>))
                       <=> called
                    /\ called => entry = EntryWithArgs(sourceFile, expr)
                    /\ expr.kind = "Identifier" => entry = EntryWithoutArgs(sourceFile, expr)
                    /\ (expr.kind = "CallExpression" /\ ~called)
                       => entry = EntryWithoutArgs(sourceFile, expr.children[1])

\* @F() @F(x, y) class C1 { }, both lowered
C11_Witness ==
    /\ converted # NotReturned
    /\ \E class \in ClassDeclarations(sourceFile) :
          /\ EndsInBrace(sourceFile, class)
          /\ Len(decoratorsToLower(class)) = 2
          /\ Expression(Decorators(class)[1]).kind = "CallExpression"
          /\ Len(Expression(Decorators(class)[1]).children) = 1
          /\ Len(Expression(Decorators(class)[2]).children) = 3
          /\ Expression(Decorators(class)[2]).children[2].text = "x"
          /\ Expression(Decorators(class)[2]).children[3].text = "y"
          /\ OccursIn(converted.output,
                      EntryWithArgs(sourceFile, Expression(Decorators(class)[2])))

CopiedPieces(output) == SelectSeq(output, LAMBDA piece : piece.src = "copy")

\* The pieces are the ranges of a partition of [0, length) in order.
PartitionInOrder(pieces, length) ==
    /\ pieces # <<>>
    /\ pieces[1].from = 0
    /\ pieces[Len(pieces)].to = length
    /\ \A k \in 1..(Len(pieces) - 1) : pieces[k + 1].from = pieces[k].to

\* C12 as stated: the input ranges copied verbatim are pairwise disjoint, are
\* written in increasing start-offset order, and together exactly partition
\* the input.
C12_CopiedRangesPartitionInput ==
    converted # NotReturned =>
        PartitionInOrder(CopiedPieces(converted.output), Len(sourceFile.text))

\* The pieces written while the file is traversed: all but the metadata
\* block of the class.
TraversalPieces(output, class) ==
    SubSeq(output, 1, BodyLength(output, class))
    \o SubSeq(output, BodyLength(output, class) + Len(MetadataBlock(class)) + 1, Len(output))

InLoweredDecorator(class, offset) ==
    \E d \in AllDecorators(class) : shouldLower(d) /\ d.start <= offset /\ offset < d.end

\* C12, amended: for a file whose class ends in "}", the ranges copied while
\* the file is traversed are written in nondecreasing start-offset order and
\* cover every input offset except the text of the lowered decorators, which
\* is not copied there; the metadata block copies again, out of order, text
\* of lowered decorators and the name of the class; and when no decorator is
\* lowered and the class itself has no decorator, the copied ranges exactly
\* partition the input in order.  Of a class whose text does not end in "}"
\* no offset from its start to its end is copied.
C12_TraversalCopiesInOrder ==
    converted # NotReturned =>
        \A class \in ClassDeclarations(sourceFile) :
            IF EndsInBrace(sourceFile, class)
            THEN LET traversal == TraversalPieces(converted.output, class)
                     block == MetadataBlock(class)
                     name == SelectSeq(class.children, LAMBDA c : c.kind = "Identifier")[1]
                 IN  /\ \A k \in 1..Len(traversal) : traversal[k].src = "copy"
                     /\ \A k \in 1..(Len(traversal) - 1) :
                           /\ traversal[k].from <= traversal[k + 1].from
                           /\ traversal[k].to <= traversal[k + 1].to
                     /\ \A offset \in 0..(Len(sourceFile.text) - 1) :
                           (\E k \in 1..Len(traversal) : Copies(traversal[k], offset))
                           <=> ~InLoweredDecorator(class, offset)
                     /\ \A k \in 1..Len(block) :
                           block[k].src = "copy"
                           => \/ /\ InLoweredDecorator(class, block[k].from)
                                 /\ InLoweredDecorator(class, block[k].to - 1)
                              \/ block[k] = Copy(sourceFile, name.start, name.end)
                     /\ ((\A d \in AllDecorators(class) : ~shouldLower(d))
                         /\ ClassDecorators(class) = {})
                        => PartitionInOrder(CopiedPieces(converted.output),
                                            Len(sourceFile.text))
            ELSE \A offset \in class.start..(class.end - 1) :
                     \A k \in 1..Len(converted.output) :
                         ~Copies(converted.output[k], offset)

\* A lowered decorator on a member and a constructor parameter of type C1
\* with a lowered decorator: the metadata block copies both names again.
C12_Witness ==
    /\ converted # NotReturned
    /\ \E class \in ClassDeclarations(sourceFile) :
          /\ EndsInBrace(sourceFile, class)
          /\ \E d \in MemberDecorators(class) : shouldLower(d)
          /\ \E d \in ParameterDecorators(class) : shouldLower(d)
          /\ \E k \in 1..Len(MetadataBlock(class)) :
                /\ MetadataBlock(class)[k].src = "copy"
                /\ MetadataBlock(class)[k].text = <<"C1">>
          /\ Len(TraversalPieces(converted.output, class)) + Len(MetadataBlock(class))
                = Len(converted.output)

Diagnostic(node, messageText) ==
    [start |-> node.start, length |-> node.end - node.start, messageText |-> messageText]

Unimplemented(expr) ==
    Diagnostic(expr, <<expr.kind, " not implemented in ", "gathering metadata">>)

\* The diagnostics a class gives rise to, in the order they are recorded:
\* the terminator alone when the class text does not end in "}"; otherwise
\* the strangely named decorated members as they are visited, then the
\* lowered class decorators whose expression emitDecorator does not implement.
ExpectedDiagnostics(file, class) ==
    LET strange == SelectSeq(class.children,
                             LAMBDA m : /\ m \in Members(class)
                                        /\ Decorators(m) # <<>>
                                        /\ StrangelyNamedMember(m))
        unsupported == SelectSeq(decoratorsToLower(class),
                                 LAMBDA d : Expression(d).kind
                                                \notin {"Identifier", "CallExpression"})
    IN  IF ~EndsInBrace(file, class)
        THEN <<Diagnostic(class, UnexpectedTerminator)>>
        ELSE [i \in 1..Len(strange) |-> Diagnostic(strange[i], StrangelyNamed)]
             \o [i \in 1..Len(unsupported) |-> Unimplemented(Expression(unsupported[i]))]

\* C13: the downleveler does not throw on source errors: on an unsupported
\* decorator expression kind, a strangely named member or an unexpected class
\* terminator it records a diagnostic and keeps going, and process() returns
\* the output for the rest of the file with the accumulated diagnostics.
C13_DiagnosticsAndOutputReturned ==
    /\ converted = NotReturned => convertDecorators(sourceFile).kind = "returned"
    /\ converted # NotReturned =>
          \A class \in ClassDeclarations(sourceFile) :
              LET output == converted.output
              IN  /\ converted.diagnostics = ExpectedDiagnostics(sourceFile, class)
                  /\ output # <<>>
                  /\ output[Len(output)] = Copy(sourceFile, class.end, Len(sourceFile.text))
                  /\ EndsInBrace(sourceFile, class) =>
                        /\ \E k \in 1..Len(output) :
                              output[k] = Copy(sourceFile, class.end - 1, class.end)
                        /\ \A d \in {e \in ClassDecorators(class) : shouldLower(e)} :
                              Expression(d).kind \notin {"Identifier", "CallExpression"}
                              => OccursIn(output,
                                          <<EmitPiece(<<"{ type: ">>), EmitPiece(<<"undefined">>),
                                            EmitPiece(<<" }">>), EmitPiece(<<",\n">>)>>)
                        /\ SubSeq(output, BodyLength(output, class) + 1,
                                  BodyLength(output, class) + Len(MetadataBlock(class)))
                              = MetadataBlock(class)

\* @(F) @F(x) class C1 { @Ann [k]; }: two diagnostics, and the decorator after
\* the unsupported one is still emitted.
C13_Witness ==
    /\ converted # NotReturned
    /\ Len(converted.diagnostics) = 2
    /\ converted.diagnostics[1].messageText = StrangelyNamed
    /\ converted.diagnostics[2].messageText
          = <<"ParenthesizedExpression", " not implemented in ", "gathering metadata">>
    /\ \E class \in ClassDeclarations(sourceFile) :
          /\ Len(decoratorsToLower(class)) = 2
          /\ Expression(Decorators(class)[2]).kind = "CallExpression"
          /\ OccursIn(converted.output, DecoratorEntry(class, Decorators(class)[2]))

(***************************************************************************)
(* main and toClosureJSDevMode                                             *)
(***************************************************************************)
MaxFiles == 2         \* length of fileNames
MaxTime == 3          \* latest modification time of a JavaScript file on disk

\* A file name is the sequence of its pieces: a.d.ts is <<"a", ".d", ".ts">>.
TsFileA == <<"a", ".ts">>
TsFileB == <<"b", ".ts">>
TsxFile == <<"a", ".tsx">>
DtsFile == <<"a", ".d", ".ts">>
InputFileNames == {TsFileA, TsFileB, TsxFile, DtsFile}

\* tsName.substr(-5) == '.d.ts'
isDeclarationFileName(tsName) ==
    /\ Len(tsName) >= 2
    /\ tsName[Len(tsName) - 1] = ".d"
    /\ tsName[Len(tsName)] = ".ts"

\* fileName.replace(/\.ts$/, '.js'): only a trailing .ts is replaced.
replaceTsByJs(fileName) ==
    IF Len(fileName) >= 1 /\ fileName[Len(fileName)] = ".ts"
    THEN [fileName EXCEPT ![Len(fileName)] = ".js"]
    ELSE fileName

\* Input files are named relative to the root directory, which is the
\* working directory: path.relative(rootDir, resolvePath(name)) is name.
relative(fileName) == fileName

tsNameToJsName(tsName, opts) ==
    IF opts.outDir # ""
    THEN <<opts.outDir, "/">> \o replaceTsByJs(relative(tsName))
    ELSE replaceTsByJs(tsName)

\* The source time of every input file; JavaScript files may be absent
\* (time 0), older, as old, or newer.
SourceTime == MaxTime - 1

JsFileA(opts) == tsNameToJsName(TsFileA, opts)
JsFileB(opts) == tsNameToJsName(TsFileB, opts)

\* The text of an input file either compiles or has one syntax error.
Texts(fileName) ==
    CASE fileName = TsFileA -> {"let a = 1;", "let a = ;"}
      [] fileName = TsFileB -> {"let b = 1;", "let b = ;"}
      [] fileName = TsxFile -> {"let x = <a/>;"}
      [] OTHER -> {"declare let d;"}
SyntaxErrors(text) == IF text \in {"let a = ;", "let b = ;"} THEN 1 ELSE 0

\* The files on disk: every input file, and the JavaScript files of an
\* earlier run that are still there.
Disk(opts, textA, textB, jsTimeA, jsTimeB) ==
    LET present == InputFileNames
                   \cup (IF jsTimeA > 0 THEN {JsFileA(opts)} ELSE {})
                   \cup (IF jsTimeB > 0 THEN {JsFileB(opts)} ELSE {})
    IN  [name \in present |->
            CASE name = TsFileA -> [mtime |-> SourceTime, text |-> textA]
              [] name = TsFileB -> [mtime |-> SourceTime, text |-> textB]
              [] name = JsFileA(opts) -> [mtime |-> jsTimeA, text |-> "a.js"]
              [] name = JsFileB(opts) -> [mtime |-> jsTimeB, text |-> "b.js"]
              [] OTHER -> [mtime |-> SourceTime,
                           text |-> CHOOSE text \in Texts(name) : TRUE]]

\* fs.statSync(name).mtime.getTime() inside try/catch over jsTime = 0.
statTimeOrZero(fs, name) == IF name \in DOMAIN fs THEN fs[name].mtime ELSE 0

\* ts.transpileModule with reportDiagnostics: the JavaScript of one file taken
\* alone, and its syntactic diagnostics.
transpileModule(text, fileName) ==
    [outputText |-> [op |-> "transpileModule", fileName |-> fileName, input |-> text],
     diagnostics |-> Diagnostics(text, SyntaxErrors(text))]

\* processES5, the ES5/goog.module converter.
processES5(fileName, content) ==
    [op |-> "processES5", fileName |-> fileName, input |-> content]

\* Map.set on jsFiles: a new key goes last, an existing key keeps its place.
jsFilesSet(map, name, output) ==
    IF \E i \in 1..Len(map) : map[i].name = name
    THEN [i \in 1..Len(map) |->
             IF map[i].name = name THEN [name |-> name, output |-> output] ELSE map[i]]
    ELSE Append(map, [name |-> name, output |-> output])

Call(op, fileName) == [op |-> op, fileName |-> fileName]

DevModeInit ==
    /\ pc = "devMode"
    /\ settings = [devMode |-> TRUE]
    /\ options \in {[outDir |-> dir] : dir \in {"", "out"}}
    /\ fileNames \in SeqUpTo(InputFileNames, MaxFiles)
    /\ \E textA \in Texts(TsFileA), textB \in Texts(TsFileB), jsTimeA, jsTimeB \in 0..MaxTime :
          fileSystem = Disk(options, textA, textB, jsTimeA, jsTimeB)
    /\ fileIndex = 0 /\ jsFiles = <<>> /\ externs = <<>>
    /\ tsickleOutput = <<>> /\ reparseDiagnostics = <<>>
    /\ allDiagnostics \in {Diagnostics("prior", n) : n \in 0..MaxPrior}
    /\ allDiagnostics0 = allDiagnostics
    /\ calls = <<>> /\ result = NotReturned
    /\ tsicklePasses = <<>> /\ preEmitDiagnostics = <<>> /\ emitDiagnostics = <<>>
    /\ program = <<>>
    /\ lowerInput = [declarations |-> <<>>] /\ lowerResult = NotReturned
    /\ sourceFile = <<>> /\ converted = NotReturned
    /\ HostIdle /\ TranslatorIdle /\ MainIdle /\ ConverterIdle

\* What one round of the forEach does to a file that is to be transpiled.
TranspileInto(tsName, jsName) ==
    LET text == fileSystem[tsName].text
        transpiled == transpileModule(text, tsName)
        relativePath == relative(jsName)
        output == processES5(relativePath, transpiled.outputText)
    IN  /\ allDiagnostics' = allDiagnostics \o transpiled.diagnostics
        /\ jsFiles' = jsFilesSet(jsFiles, jsName, output)
        /\ calls' = calls \o <<Call("transpileModule", tsName),
                               Call("processES5", relativePath)>>

\* A forEach round that transpiles declaration files like any other file.
TranspileFileOfAnyName ==
    /\ pc = "devMode" /\ fileIndex < Len(fileNames)
    /\ LET tsName == fileNames[fileIndex + 1]
           jsName == tsNameToJsName(tsName, options)
       IN  IF fileSystem[tsName].mtime > statTimeOrZero(fileSystem, jsName)
           THEN TranspileInto(tsName, jsName)
           ELSE UNCHANGED <<allDiagnostics, jsFiles, calls>>
    /\ fileIndex' = fileIndex + 1
    /\ UNCHANGED <<pc, tsicklePasses, preEmitDiagnostics, emitDiagnostics, allDiagnostics0,
                   program, result, settings, options, fileSystem, fileNames, externs,
                   tsickleOutput, reparseDiagnostics, lowerVars, decoratorVars, hostVars,
                   translatorVars,
                   mainVars, converterVars>>

\* A forEach round that transpiles whether or not the JavaScript is up to date.
TranspileFileAlways ==
    /\ pc = "devMode" /\ fileIndex < Len(fileNames)
    /\ LET tsName == fileNames[fileIndex + 1]
           jsName == tsNameToJsName(tsName, options)
       IN  IF ~isDeclarationFileName(tsName)
           THEN TranspileInto(tsName, jsName)
           ELSE UNCHANGED <<allDiagnostics, jsFiles, calls>>
    /\ fileIndex' = fileIndex + 1
    /\ UNCHANGED <<pc, tsicklePasses, preEmitDiagnostics, emitDiagnostics, allDiagnostics0,
                   program, result, settings, options, fileSystem, fileNames, externs,
                   tsickleOutput, reparseDiagnostics, lowerVars, decoratorVars, hostVars,
                   translatorVars,
                   mainVars, converterVars>>

\* A forEach round that keeps only the diagnostics of the file at hand.
TranspileFileKeepOwnDiagnostics ==
    /\ pc = "devMode" /\ fileIndex < Len(fileNames)
    /\ LET tsName == fileNames[fileIndex + 1]
           jsName == tsNameToJsName(tsName, options)
           transpiled == transpileModule(fileSystem[tsName].text, tsName)
       IN  IF /\ ~isDeclarationFileName(tsName)
              /\ fileSystem[tsName].mtime > statTimeOrZero(fileSystem, jsName)
           THEN /\ allDiagnostics' = transpiled.diagnostics
                /\ jsFiles' = jsFilesSet(jsFiles, jsName,
                                         processES5(relative(jsName), transpiled.outputText))
                /\ calls' = calls \o <<Call("transpileModule", tsName),
                                       Call("processES5", relative(jsName))>>
           ELSE UNCHANGED <<allDiagnostics, jsFiles, calls>>
    /\ fileIndex' = fileIndex + 1
    /\ UNCHANGED <<pc, tsicklePasses, preEmitDiagnostics, emitDiagnostics, allDiagnostics0,
                   program, result, settings, options, fileSystem, fileNames, externs,
                   tsickleOutput, reparseDiagnostics, lowerVars, decoratorVars, hostVars,
                   translatorVars,
                   mainVars, converterVars>>

\* One round of fileNames.forEach in toClosureJSDevMode.
TranspileFile ==
    /\ pc = "devMode" /\ fileIndex < Len(fileNames)
    /\ LET tsName == fileNames[fileIndex + 1]
           jsName == tsNameToJsName(tsName, options)
       IN  IF /\ ~isDeclarationFileName(tsName)
              /\ fileSystem[tsName].mtime > statTimeOrZero(fileSystem, jsName)
           THEN TranspileInto(tsName, jsName)
           ELSE UNCHANGED <<allDiagnostics, jsFiles, calls>>
    /\ fileIndex' = fileIndex + 1
    /\ UNCHANGED <<pc, tsicklePasses, preEmitDiagnostics, emitDiagnostics, allDiagnostics0,
                   program, result, settings, options, fileSystem, fileNames, externs,
                   tsickleOutput, reparseDiagnostics, lowerVars, decoratorVars, hostVars,
                   translatorVars,
                   mainVars, converterVars>>

\* return {jsFiles: jsFiles, externs: ''}
DevModeReturn ==
    /\ pc = "devMode" /\ fileIndex = Len(fileNames)
    /\ result' = [kind |-> "output", jsFiles |-> jsFiles, externs |-> <<>>]
    /\ pc' = "done"
    /\ UNCHANGED <<tsicklePasses, preEmitDiagnostics, emitDiagnostics, allDiagnostics,
                   allDiagnostics0, program, calls, fileVars, lowerVars, decoratorVars,
                   hostVars, translatorVars,
                   mainVars, converterVars>>

\* main runs one of the two, by settings.devMode.
MainInit == PipelineInit \/ DevModeInit
MainNext == TypeCheck \/ DecoratorDownlevel \/ Closurize \/ Emit
            \/ TranspileFile \/ DevModeReturn
MainSpec == MainInit /\ [][MainNext]_vars

(***************************************************************************)
(* Claims about dev mode and the diagnostic sink                           *)
(***************************************************************************)
ReturnedOutput == result.kind = "output"
InputFiles == {fileNames[k] : k \in 1..Len(fileNames)}
HasEntry(map, name) == \E i \in 1..Len(map) : map[i].name = name

\* The converted JavaScript of an input file taken alone.
ConvertedAlone(tsName) ==
    processES5(relative(tsNameToJsName(tsName, options)),
               transpileModule(fileSystem[tsName].text, tsName).outputText)

\* C14: in dev mode no program is created and nothing is type-checked,
\* downlevelled or annotated; every entry of jsFiles is the ES5/goog.module
\* conversion of the standalone transpilation of an input that is not a
\* declaration file, a declaration file has no entry, and the externs returned
\* are the empty string.
C14_DevModeOnlyConverts ==
    settings.devMode =>
        /\ program = <<>>
        /\ \A i \in 1..Len(calls) : calls[i].op \in {"transpileModule", "processES5"}
        /\ \A i \in 1..Len(jsFiles) :
              \E tsName \in InputFiles :
                  /\ ~isDeclarationFileName(tsName)
                  /\ jsFiles[i].name = tsNameToJsName(tsName, options)
                  /\ jsFiles[i].output = ConvertedAlone(tsName)
        /\ \A tsName \in InputFiles :
              isDeclarationFileName(tsName)
                  => ~HasEntry(jsFiles, tsNameToJsName(tsName, options))
        /\ ReturnedOutput => result.externs = <<>> /\ result.jsFiles = jsFiles

C14_Witness ==
    /\ settings.devMode /\ ReturnedOutput
    /\ DtsFile \in InputFiles
    /\ Len(result.jsFiles) = 1

\* C15 as stated: every input that is not a declaration file has its
\* converted JavaScript in the jsFiles returned by dev mode.
C15_EveryInputHasEntry ==
    (settings.devMode /\ ReturnedOutput) =>
        \A tsName \in InputFiles :
            ~isDeclarationFileName(tsName) =>
                \E i \in 1..Len(result.jsFiles) :
                    /\ result.jsFiles[i].name = tsNameToJsName(tsName, options)
                    /\ result.jsFiles[i].output = ConvertedAlone(tsName)

\* The source was modified after the JavaScript of the same name, or there
\* is no such JavaScript.
IsStale(tsName) ==
    fileSystem[tsName].mtime
        > statTimeOrZero(fileSystem, tsNameToJsName(tsName, options))

\* C15: an input that is not a declaration file has an entry in the jsFiles
\* returned by dev mode exactly when its source is newer than the JavaScript
\* file of its name on disk (or there is none); the entry then holds the
\* file's converted JavaScript.
C15_StaleInputsHaveEntry ==
    (settings.devMode /\ ReturnedOutput) =>
        \A tsName \in InputFiles :
            ~isDeclarationFileName(tsName) =>
                /\ HasEntry(result.jsFiles, tsNameToJsName(tsName, options))
                       <=> IsStale(tsName)
                /\ \A i \in 1..Len(result.jsFiles) :
                       result.jsFiles[i].name = tsNameToJsName(tsName, options)
                           => result.jsFiles[i].output = ConvertedAlone(tsName)

C15_Witness ==
    /\ settings.devMode /\ ReturnedOutput
    /\ fileNames = <<TsFileA, TsFileB>>
    /\ IsStale(TsFileA) /\ ~IsStale(TsFileB)
    /\ statTimeOrZero(fileSystem, tsNameToJsName(TsFileA, options)) > 0
    /\ Len(result.jsFiles) = 1

\* C19: whichever of toClosureJS and toClosureJSDevMode main runs, the
\* diagnostics allDiagnostics held at the call stay an unchanged prefix of it.
C19_DiagnosticsAppendOnly == IsPrefix(allDiagnostics0, allDiagnostics)

C19_Witness ==
    /\ settings.devMode /\ ReturnedOutput
    /\ Len(allDiagnostics0) > 0
    /\ Len(allDiagnostics) = Len(allDiagnostics0) + 2

(***************************************************************************)
(* Source-replacing compiler host: createSourceReplacingCompilerHost       *)
(***************************************************************************)
\* A path is the sequence of its pieces; an absolute one starts with "/".
\* ts.sys.resolvePath with the working directory "/".
resolvePath(fileName) ==
    IF Len(fileName) >= 1 /\ fileName[1] = "/" THEN fileName ELSE <<"/">> \o fileName

RequestedFileNames == {<<"a.ts">>, <<"/", "a.ts">>, <<"b.ts">>, <<"/", "b.ts">>}
OverlayKeys == {<<"/", "a.ts">>, <<"/", "b.ts">>, <<"a.ts">>}
OverlayTexts == {"", "class A {}"}
LanguageVersions == {"ES5", "ES2015"}

\* The members of the host returned by createSourceReplacingCompilerHost.
HostMembers ==
    {"getSourceFile", "getCancellationToken", "getDefaultLibFileName", "writeFile",
     "getCurrentDirectory", "getCanonicalFileName", "useCaseSensitiveFileNames",
     "getNewLine", "fileExists", "readFile", "directoryExists", "getDirectories"}

\* The delegate: each of its members, called, answers with its own result.
delegate == [member \in HostMembers |-> [owner |-> "delegate", member |-> member]]

\* Map.get: the value of the key, or undefined.
undefined == [kind |-> "undefined"]
MapGet(map, key) ==
    IF key \in DOMAIN map THEN [kind |-> "string", value |-> map[key]] ELSE undefined

\* JavaScript truthiness of a string or undefined.
Truthy(value) == value.kind = "string" /\ value.value # ""

createSourceFile(path, sourceText, languageVersion) ==
    [kind |-> "SourceFile", by |-> "ts.createSourceFile",
     args |-> <<path, sourceText, languageVersion>>]

\* What a member of the delegate returns for the given arguments.
CallDelegate(implementation, args) ==
    [kind |-> "SourceFile", by |-> implementation.member, args |-> args]

\* getSourceFile that takes the overlay whenever the map has the key.
getSourceFileHasKey(substituteSource, fileName, languageVersion) ==
    LET path == resolvePath(fileName)
    IN  IF path \in DOMAIN substituteSource
        THEN createSourceFile(path, substituteSource[path], languageVersion)
        ELSE CallDelegate(delegate["getSourceFile"], <<path, languageVersion, "onError">>)

getSourceFile(substituteSource, fileName, languageVersion) ==
    LET path == resolvePath(fileName)
        sourceText == MapGet(substituteSource, path)
    IN  IF Truthy(sourceText)
        THEN createSourceFile(path, sourceText.value, languageVersion)
        ELSE CallDelegate(delegate["getSourceFile"], <<path, languageVersion, "onError">>)

\* The object createSourceReplacingCompilerHost returns: its own getSourceFile,
\* and the delegate's function for every other member.
createSourceReplacingCompilerHost ==
    [member \in HostMembers |->
        IF member = "getSourceFile"
        THEN [owner |-> "overlay", member |-> "getSourceFile"]
        ELSE delegate[member]]

\* All maps from some of the keys to texts.
SubstituteSources == UNION {[keys -> OverlayTexts] : keys \in SUBSET OverlayKeys}

HostInit ==
    /\ pc = "host"
    /\ \E substituteSource \in SubstituteSources, member \in HostMembers,
          fileName \in RequestedFileNames, languageVersion \in LanguageVersions :
          hostInput = [substituteSource |-> substituteSource, member |-> member,
                       fileName |-> fileName, languageVersion |-> languageVersion]
    /\ hostResult = NotReturned
    /\ tsicklePasses = <<>> /\ preEmitDiagnostics = <<>> /\ emitDiagnostics = <<>>
    /\ allDiagnostics = <<>> /\ allDiagnostics0 = <<>>
    /\ program = <<>> /\ calls = <<>> /\ result = NotReturned
    /\ lowerInput = [declarations |-> <<>>] /\ lowerResult = NotReturned
    /\ sourceFile = <<>> /\ converted = NotReturned
    /\ FilesIdle /\ TranslatorIdle /\ MainIdle /\ ConverterIdle

\* The compiler calls host.getSourceFile(fileName, languageVersion).
GetSourceFile ==
    /\ pc = "host" /\ hostResult = NotReturned
    /\ createSourceReplacingCompilerHost[hostInput.member].owner = "overlay"
    /\ hostResult' = getSourceFile(hostInput.substituteSource, hostInput.fileName,
                                   hostInput.languageVersion)
    /\ UNCHANGED <<hostInput, pipelineVars, lowerVars, decoratorVars, fileVars,
                   translatorVars,
                   mainVars, converterVars>>

\* The compiler calls any other member of the host.
CallForwarded ==
    /\ pc = "host" /\ hostResult = NotReturned
    /\ createSourceReplacingCompilerHost[hostInput.member].owner = "delegate"
    /\ hostResult' = CallDelegate(createSourceReplacingCompilerHost[hostInput.member],
                                  <<hostInput.fileName, hostInput.languageVersion, "onError">>)
    /\ UNCHANGED <<hostInput, pipelineVars, lowerVars, decoratorVars, fileVars,
                   translatorVars,
                   mainVars, converterVars>>

HostNext == GetSourceFile \/ CallForwarded
HostSpec == HostInit /\ [][HostNext]_vars

\* C16 as stated: getSourceFile builds the source file from the overlay text
\* whenever the resolved path is a key of substituteSource, and otherwise
\* returns what the delegate's getSourceFile returns; every other member
\* returns what the same member of the delegate returns.
C16_OverlayForEveryKey ==
    hostResult # NotReturned =>
        LET path == resolvePath(hostInput.fileName)
        IN  IF hostInput.member = "getSourceFile"
            THEN IF path \in DOMAIN hostInput.substituteSource
                 THEN hostResult = createSourceFile(path, hostInput.substituteSource[path],
                                                    hostInput.languageVersion)
                 ELSE hostResult = CallDelegate(delegate["getSourceFile"],
                                                <<path, hostInput.languageVersion, "onError">>)
            ELSE hostResult = CallDelegate(delegate[hostInput.member],
                                           <<hostInput.fileName,
                                             hostInput.languageVersion, "onError">>)

(***************************************************************************)
(* toClosureJS that annotates file by file and converts what was emitted   *)
(***************************************************************************)
AnnotatedFileNames == {TsFileA, TsFileB, DtsFile}

ExternsOf(fileName) ==
    CASE fileName = TsFileA -> <<"/** externs of a.ts */">>
      [] fileName = TsFileB -> <<"/** externs of b.ts */">>
      [] OTHER -> <<"/** externs of a.d.ts */">>

\* What is known of the input files: the text of each, and what
\* tsickle.annotate reports and generates for it.
Sources(externsOf, failing, count) ==
    [name \in AnnotatedFileNames |->
        [text |-> CHOOSE text \in Texts(name) : SyntaxErrors(text) = 0,
         externs |-> externsOf[name],
         diagnostics |-> IF name = failing THEN Diagnostics("annotate", count) ELSE <<>>]]

\* tsickle.annotate(program, program.getSourceFile(fileName), tsickleOptions)
annotate(fs, fileName) ==
    [output |-> [op |-> "annotate", fileName |-> fileName, input |-> fs[fileName].text],
     externs |-> fs[fileName].externs,
     diagnostics |-> fs[fileName].diagnostics]

\* tsickleOutput[path] = output
outputSet(map, path, output) ==
    IF \E i \in 1..Len(map) : map[i].name = path
    THEN [i \in 1..Len(map) |->
             IF map[i].name = path THEN [name |-> path, output |-> output] ELSE map[i]]
    ELSE Append(map, [name |-> path, output |-> output])

\* path.extname: the last piece of a name of several pieces.
extname(fileName) == IF Len(fileName) >= 2 THEN fileName[Len(fileName)] ELSE ""

\* tsickle.convertCommonJsToGoogModule(fileName, content, pathToModuleName)
convertCommonJsToGoogModule(fileName, content) ==
    [op |-> "convertCommonJsToGoogModule", fileName |-> fileName, input |-> content]

\* The files the compiler writes for one source file, in the order written.
OutputNames(tsName, opts) ==
    LET stem == SubSeq(tsName, 1, Len(tsName) - 1)
    IN  <<stem \o <<".js">>>>
        \o (IF opts.sourceMap THEN <<stem \o <<".js", ".map">>>> ELSE <<>>)
        \o (IF opts.declaration THEN <<stem \o <<".d", ".ts">>>> ELSE <<>>)

\* The source text the program reads for a file: its overlay, through the
\* source-replacing host.
ProgramText(overlay, tsName) ==
    LET path == resolvePath(tsName)
    IN  overlay[CHOOSE i \in 1..Len(overlay) : overlay[i].name = path].output

RECURSIVE WriteOutputs(_, _, _, _)
\* writeFile for each of the given output names of one source file.
WriteOutputs(map, names, tsName, overlay) ==
    IF names = <<>> THEN map
    ELSE WriteOutputs(jsFilesSet(map, Head(names),
                                 [op |-> "emit", fileName |-> Head(names),
                                  input |-> ProgramText(overlay, tsName)]),
                      Tail(names), tsName, overlay)

RECURSIVE EmitProgram(_, _, _, _, _)
\* program.emit(undefined, writeFile): every source file that is not a
\* declaration file is written once, in the order of the root names.
EmitProgram(map, names, k, opts, overlay) ==
    IF k > Len(names) THEN map
    ELSE IF isDeclarationFileName(names[k]) \/ \E j \in 1..(k - 1) : names[j] = names[k]
         THEN EmitProgram(map, names, k + 1, opts, overlay)
         ELSE EmitProgram(WriteOutputs(map, OutputNames(names[k], opts), names[k], overlay),
                          names, k + 1, opts, overlay)

ReturnErrors(errors) == [kind |-> "errors", errors |-> errors]

AnnotatingInit ==
    /\ pc = "check"
    /\ settings = [devMode |-> FALSE]
    /\ options \in {[outDir |-> "", declaration |-> d, sourceMap |-> m] : d, m \in BOOLEAN}
    /\ fileNames \in SeqUpTo(AnnotatedFileNames, MaxFiles)
    /\ \E stage \in {"none", "preEmit", "annotate", "reparse", "emit"},
          count \in 1..MaxDiagnostics,
          externsOf \in {[name \in AnnotatedFileNames |->
                              IF name \in withExterns THEN ExternsOf(name) ELSE <<>>] :
                          withExterns \in SUBSET AnnotatedFileNames} :
          /\ preEmitDiagnostics
                 = (IF stage = "preEmit" THEN Diagnostics("preEmit", count) ELSE <<>>)
          /\ reparseDiagnostics
                 = (IF stage = "reparse" THEN Diagnostics("reparse", count) ELSE <<>>)
          /\ emitDiagnostics = (IF stage = "emit" THEN Diagnostics("emit", count) ELSE <<>>)
          /\ fileSystem = Sources(externsOf,
                                  IF stage = "annotate" THEN TsFileB ELSE <<>>, count)
    /\ fileIndex = 0 /\ jsFiles = <<>> /\ externs = <<>> /\ tsickleOutput = <<>>
    /\ allDiagnostics = <<>> /\ allDiagnostics0 = <<>>
    /\ tsicklePasses = <<>> /\ program = <<>> /\ calls = <<>> /\ result = NotReturned
    /\ lowerInput = [declarations |-> <<>>] /\ lowerResult = NotReturned
    /\ sourceFile = <<>> /\ converted = NotReturned
    /\ HostIdle /\ TranslatorIdle /\ MainIdle /\ ConverterIdle

\* ts.createProgram on the original sources and ts.getPreEmitDiagnostics.
CheckOriginal ==
    /\ pc = "check"
    /\ program' = <<"original">>
    /\ calls' = calls \o <<Call("createProgram", <<>>), Call("getPreEmitDiagnostics", <<>>)>>
    /\ IF Len(preEmitDiagnostics) > 0
       THEN result' = ReturnErrors(preEmitDiagnostics) /\ pc' = "done"
       ELSE result' = result /\ pc' = "annotate"
    /\ UNCHANGED <<tsicklePasses, preEmitDiagnostics, emitDiagnostics, allDiagnostics,
                   allDiagnostics0, fileVars, lowerVars, decoratorVars, hostVars, translatorVars,
                   mainVars, converterVars>>

\* A round of the annotation loop that puts the new externs first.
AnnotateFileExternsFirst ==
    /\ pc = "annotate" /\ fileIndex < Len(fileNames)
    /\ LET fileName == fileNames[fileIndex + 1]
           annotated == annotate(fileSystem, fileName)
       IN  /\ calls' = Append(calls, Call("annotate", fileName))
           /\ IF Len(annotated.diagnostics) > 0
              THEN /\ result' = ReturnErrors(annotated.diagnostics) /\ pc' = "done"
                   /\ UNCHANGED <<tsickleOutput, externs, fileIndex>>
              ELSE /\ tsickleOutput'
                          = outputSet(tsickleOutput, resolvePath(fileName), annotated.output)
                   /\ externs' = (IF annotated.externs # <<>>
                                  THEN annotated.externs \o externs ELSE externs)
                   /\ fileIndex' = fileIndex + 1
                   /\ UNCHANGED <<result, pc>>
    /\ UNCHANGED <<tsicklePasses, preEmitDiagnostics, emitDiagnostics, allDiagnostics,
                   allDiagnostics0, program, settings, options, fileSystem, fileNames,
                   jsFiles, reparseDiagnostics, lowerVars, decoratorVars, hostVars, translatorVars,
                   mainVars, converterVars>>

\* One round of `for (let fileName of fileNames)`: annotate the file, keep
\* its output and add its externs.
AnnotateFile ==
    /\ pc = "annotate" /\ fileIndex < Len(fileNames)
    /\ LET fileName == fileNames[fileIndex + 1]
           annotated == annotate(fileSystem, fileName)
       IN  /\ calls' = Append(calls, Call("annotate", fileName))
           /\ IF Len(annotated.diagnostics) > 0
              THEN /\ result' = ReturnErrors(annotated.diagnostics) /\ pc' = "done"
                   /\ UNCHANGED <<tsickleOutput, externs, fileIndex>>
              ELSE /\ tsickleOutput'
                          = outputSet(tsickleOutput, resolvePath(fileName), annotated.output)
                   /\ externs' = (IF annotated.externs # <<>>
                                  THEN externs \o annotated.externs ELSE externs)
                   /\ fileIndex' = fileIndex + 1
                   /\ UNCHANGED <<result, pc>>
    /\ UNCHANGED <<tsicklePasses, preEmitDiagnostics, emitDiagnostics, allDiagnostics,
                   allDiagnostics0, program, settings, options, fileSystem, fileNames,
                   jsFiles, reparseDiagnostics, lowerVars, decoratorVars, hostVars, translatorVars,
                   mainVars, converterVars>>

\* The program is created again over the annotated texts and type-checked.
Reparse ==
    /\ pc = "annotate" /\ fileIndex = Len(fileNames)
    /\ program' = <<"annotated">>
    /\ calls' = calls \o <<Call("createProgram", <<>>), Call("getPreEmitDiagnostics", <<>>)>>
    /\ IF Len(reparseDiagnostics) > 0
       THEN result' = ReturnErrors(reparseDiagnostics) /\ pc' = "done"
       ELSE result' = result /\ pc' = "emit"
    /\ UNCHANGED <<tsicklePasses, preEmitDiagnostics, emitDiagnostics, allDiagnostics,
                   allDiagnostics0, fileVars, lowerVars, decoratorVars, hostVars, translatorVars,
                   mainVars, converterVars>>

\* program.emit with a writeFile that fills jsFiles.
EmitIntoMap ==
    /\ pc = "emit"
    /\ jsFiles' = EmitProgram(<<>>, fileNames, 1, options, tsickleOutput)
    /\ calls' = Append(calls, Call("emit", <<>>))
    /\ fileIndex' = 0
    /\ IF Len(emitDiagnostics) > 0
       THEN result' = ReturnErrors(emitDiagnostics) /\ pc' = "done"
       ELSE result' = result /\ pc' = "convert"
    /\ UNCHANGED <<tsicklePasses, preEmitDiagnostics, emitDiagnostics, allDiagnostics,
                   allDiagnostics0, program, settings, options, fileSystem, fileNames,
                   externs, tsickleOutput, reparseDiagnostics, lowerVars, decoratorVars,
                   hostVars, translatorVars,
                   mainVars, converterVars>>

\* One round of `for (let fileName of Object.keys(jsFiles))`.
ConvertFile ==
    /\ pc = "convert" /\ fileIndex < Len(jsFiles)
    /\ LET fileName == jsFiles[fileIndex + 1].name
       IN  IF extname(fileName) # ".map"
           THEN /\ jsFiles' = jsFilesSet(jsFiles, fileName,
                                  convertCommonJsToGoogModule(fileName,
                                                              jsFiles[fileIndex + 1].output))
                /\ calls' = Append(calls, Call("convertCommonJsToGoogModule", fileName))
           ELSE UNCHANGED <<jsFiles, calls>>
    /\ fileIndex' = fileIndex + 1
    /\ UNCHANGED <<pc, tsicklePasses, preEmitDiagnostics, emitDiagnostics, allDiagnostics,
                   allDiagnostics0, program, result, settings, options, fileSystem,
                   fileNames, externs, tsickleOutput, reparseDiagnostics, lowerVars,
                   decoratorVars, hostVars, translatorVars,
                   mainVars, converterVars>>

\* return {jsFiles, externs: tsickleExterns}
ReturnOutput ==
    /\ pc = "convert" /\ fileIndex = Len(jsFiles)
    /\ result' = [kind |-> "output", jsFiles |-> jsFiles, externs |-> externs]
    /\ pc' = "done"
    /\ UNCHANGED <<tsicklePasses, preEmitDiagnostics, emitDiagnostics, allDiagnostics,
                   allDiagnostics0, program, calls, fileVars, lowerVars, decoratorVars,
                   hostVars, translatorVars,
                   mainVars, converterVars>>

AnnotatingNext ==
    CheckOriginal \/ AnnotateFile \/ Reparse \/ EmitIntoMap \/ ConvertFile \/ ReturnOutput
AnnotatingSpec == AnnotatingInit /\ [][AnnotatingNext]_vars

(***************************************************************************)
(* Claims about externs and the conversion of emitted files                *)
(***************************************************************************)
RECURSIVE ExternsUpTo(_)
\* The externs of the first k entries of fileNames, one after the other.
ExternsUpTo(k) ==
    IF k = 0 THEN <<>> ELSE ExternsUpTo(k - 1) \o fileSystem[fileNames[k]].externs

RECURSIVE ExternsOncePerFile(_)
\* The externs of the files among the first k entries of fileNames, in the
\* order of fileNames, a file listed more than once counted where it is
\* listed first.
ExternsOncePerFile(k) ==
    IF k = 0 THEN <<>>
    ELSE IF \E j \in 1..(k - 1) : fileNames[j] = fileNames[k]
    THEN ExternsOncePerFile(k - 1)
    ELSE ExternsOncePerFile(k - 1) \o fileSystem[fileNames[k]].externs

\* C17 as stated: the externs returned are the externs of the input files in
\* the order of fileNames, each input file contributing at most once.
C17_EachFileAtMostOnce ==
    ReturnedOutput => result.externs = ExternsOncePerFile(Len(fileNames))

\* C17: the externs gathered are those of the entries of fileNames gone
\* through so far, each entry once and in the order of fileNames; the externs
\* returned are those of all entries of fileNames in that order, so that a
\* file listed twice contributes its externs twice.
C17_ExternsInInputOrder ==
    /\ pc = "annotate" => externs = ExternsUpTo(fileIndex)
    /\ ReturnedOutput => result.externs = ExternsUpTo(Len(fileNames))
    /\ ReturnedOutput =>
           \A name \in AnnotatedFileNames :
               Len(SelectSeq(result.externs,
                             LAMBDA e : \E i \in 1..Len(ExternsOf(name)) :
                                            e = ExternsOf(name)[i]))
                   = Len(fileSystem[name].externs)
                       * Cardinality({k \in 1..Len(fileNames) : fileNames[k] = name})

C17_Witness ==
    /\ ReturnedOutput
    /\ fileNames = <<TsFileB, TsFileA>>
    /\ result.externs = ExternsOf(TsFileB) \o ExternsOf(TsFileA)

\* What program.emit wrote, before any conversion.
EmittedFiles == EmitProgram(<<>>, fileNames, 1, options, tsickleOutput)

\* How many times the converter was called on a file.
Conversions(fileName) ==
    Cardinality({i \in 1..Len(calls) :
                    calls[i] = Call("convertCommonJsToGoogModule", fileName)})

\* C18 as stated: of the emitted files, each .js file is converted exactly
\* once and holds the converted text; a .map file or a .d.ts file is never
\* converted and its entry is what was emitted.
C18_ConvertsOnlyJs ==
    ReturnedOutput =>
        /\ Len(result.jsFiles) = Len(EmittedFiles)
        /\ \A i \in 1..Len(EmittedFiles) :
              LET fileName == EmittedFiles[i].name
              IN  IF extname(fileName) = ".map" \/ isDeclarationFileName(fileName)
                  THEN Conversions(fileName) = 0 /\ result.jsFiles[i] = EmittedFiles[i]
                  ELSE /\ Conversions(fileName) = 1
                       /\ result.jsFiles[i].name = fileName
                       /\ result.jsFiles[i].output
                              = convertCommonJsToGoogModule(fileName, EmittedFiles[i].output)

(***************************************************************************)
(* Type translator: the typedef of a type alias                            *)
(***************************************************************************)
MaxFields == 2        \* properties of the object type an alias is declared as
MaxDepth == 4         \* nested alias translations the call stack has room for

Recursive == "Recursive"
Other == "Other"
TypeSymbols == {Recursive, Other}

NumberType == [kind |-> "number"]
TypeReference(symbol) == [kind |-> "reference", symbol |-> symbol]
Property(name, type) == [name |-> name, type |-> type]
ObjectType(properties) == [kind |-> "object", properties |-> properties]

PropertyNames == <<"value", "next", "prev">>

\* The type of a property: number, an alias, or an object type of one
\* property holding number or an alias.
PropertyTypes ==
    LET leaves == {NumberType} \cup {TypeReference(symbol) : symbol \in TypeSymbols}
    IN  leaves \cup {ObjectType(<<Property("inner", type)>>) : type \in leaves}

\* Object types of up to max properties, named in the order of PropertyNames.
ObjectTypes(max) ==
    UNION {{ObjectType([i \in 1..n |-> Property(PropertyNames[i], types[i])]) :
               types \in [1..n -> PropertyTypes]} : n \in 1..max}

\* What the second alias may be declared as.
OtherTypes ==
    {NumberType, TypeReference(Recursive),
     ObjectType(<<Property("next", TypeReference(Recursive))>>),
     ObjectType(<<Property("next", TypeReference(Other))>>)}

\* What is left to do: translate a type, write a piece of text, or leave the
\* translation of an alias.
TranslateFrame(type) == [kind |-> "translate", type |-> type]
WriteFrame(text) == [kind |-> "write", text |-> text]
LeaveFrame(symbol) == [kind |-> "leave", symbol |-> symbol]

RECURSIVE PropertyFrames(_, _)
\* name: type, name: type, ...
PropertyFrames(properties, i) ==
    IF i > Len(properties) THEN <<>>
    ELSE (IF i > 1 THEN <<WriteFrame(", ")>> ELSE <<>>)
         \o <<WriteFrame(properties[i].name), WriteFrame(": "),
              TranslateFrame(properties[i].type)>>
         \o PropertyFrames(properties, i + 1)

\* How many alias translations are under way on the stack.
Depth(frames) == Cardinality({i \in 1..Len(frames) : frames[i].kind = "leave"})

TranslatorInit ==
    /\ pc = "translate"
    /\ \E recursive \in ObjectTypes(MaxFields), other \in OtherTypes :
          typeDeclarations =
              [symbol \in TypeSymbols |-> IF symbol = Recursive THEN recursive ELSE other]
    /\ stack = <<TranslateFrame(TypeReference(Recursive))>>
    /\ translating = {}
    /\ typeString = <<>>
    /\ tsicklePasses = <<>> /\ preEmitDiagnostics = <<>> /\ emitDiagnostics = <<>>
    /\ allDiagnostics = <<>> /\ allDiagnostics0 = <<>>
    /\ program = <<>> /\ calls = <<>> /\ result = NotReturned
    /\ lowerInput = [declarations |-> <<>>] /\ lowerResult = NotReturned
    /\ sourceFile = <<>> /\ converted = NotReturned
    /\ FilesIdle /\ HostIdle /\ MainIdle /\ ConverterIdle

\* Write the piece of text on top of the stack.
Write ==
    /\ pc = "translate" /\ stack # <<>> /\ Head(stack).kind = "write"
    /\ typeString' = Append(typeString, Head(stack).text)
    /\ stack' = Tail(stack)
    /\ UNCHANGED <<pc, typeDeclarations, translating>>

\* The translation of an alias is over: it is no longer under way.
Leave ==
    /\ pc = "translate" /\ stack # <<>> /\ Head(stack).kind = "leave"
    /\ translating' = translating \ {Head(stack).symbol}
    /\ stack' = Tail(stack)
    /\ UNCHANGED <<pc, typeDeclarations, typeString>>

\* Translate number, or an object type property by property.
TranslateStructure ==
    /\ pc = "translate" /\ stack # <<>> /\ Head(stack).kind = "translate"
    /\ LET type == Head(stack).type
       IN  /\ type.kind \in {"number", "object"}
           /\ IF type.kind = "number"
              THEN /\ typeString' = Append(typeString, "number")
                   /\ stack' = Tail(stack)
              ELSE /\ typeString' = typeString
                   /\ stack' = <<WriteFrame("{")>> \o PropertyFrames(type.properties, 1)
                               \o <<WriteFrame("}")>> \o Tail(stack)
    /\ UNCHANGED <<pc, typeDeclarations, translating>>

\* A translation of an alias that always unfolds its declaration.
TranslateReferenceUnfolding ==
    /\ pc = "translate" /\ stack # <<>> /\ Head(stack).kind = "translate"
    /\ LET type == Head(stack).type
       IN  /\ type.kind = "reference"
           /\ IF Depth(stack) >= MaxDepth
              THEN /\ pc' = "RangeError"
                   /\ UNCHANGED <<stack, translating, typeString>>
              ELSE /\ translating' = translating \cup {type.symbol}
                   /\ stack' = <<TranslateFrame(typeDeclarations[type.symbol]),
                                 LeaveFrame(type.symbol)>> \o Tail(stack)
                   /\ UNCHANGED <<pc, typeString>>
    /\ UNCHANGED typeDeclarations

\* Translate a reference to an alias: `?` when the alias is under way,
\* otherwise the translation of what it is declared as.  A call stack with no
\* room left throws.
TranslateReference ==
    /\ pc = "translate" /\ stack # <<>> /\ Head(stack).kind = "translate"
    /\ LET type == Head(stack).type
       IN  /\ type.kind = "reference"
           /\ IF type.symbol \in translating
              THEN /\ typeString' = Append(typeString, "?")
                   /\ stack' = Tail(stack)
                   /\ UNCHANGED <<pc, translating>>
              ELSE IF Depth(stack) >= MaxDepth
              THEN /\ pc' = "RangeError"
                   /\ UNCHANGED <<stack, translating, typeString>>
              ELSE /\ translating' = translating \cup {type.symbol}
                   /\ stack' = <<TranslateFrame(typeDeclarations[type.symbol]),
                                 LeaveFrame(type.symbol)>> \o Tail(stack)
                   /\ UNCHANGED <<pc, typeString>>
    /\ UNCHANGED typeDeclarations

Translate ==
    /\ Write \/ Leave \/ TranslateStructure \/ TranslateReference
    /\ UNCHANGED <<tsicklePasses, preEmitDiagnostics, emitDiagnostics, allDiagnostics,
                   allDiagnostics0, program, calls, result, lowerVars, decoratorVars,
                   fileVars, hostVars, mainVars, converterVars>>

\* The translation returns what was written.
TranslateReturn ==
    /\ pc = "translate" /\ stack = <<>>
    /\ pc' = "translated"
    /\ UNCHANGED <<tsicklePasses, preEmitDiagnostics, emitDiagnostics, allDiagnostics,
                   allDiagnostics0, program, calls, result, lowerVars, decoratorVars,
                   fileVars, hostVars, translatorVars,
                   mainVars, converterVars>>

TranslatorNext == Translate \/ TranslateReturn
TranslatorSpec == TranslatorInit /\ [][TranslatorNext]_vars
\* The translator runs to completion: a step that can be taken is taken.
TranslatorRunSpec == TranslatorSpec /\ WF_vars(TranslatorNext)

(***************************************************************************)
(* Claims about the type translator                                        *)
(***************************************************************************)
\* type Recursive = {value: number, next: Recursive};
RecursiveDeclaration ==
    ObjectType(<<Property("value", NumberType), Property("next", TypeReference(Recursive))>>)
\* {value: number, next: ?}
RecursiveTypedef == <<"{", "value", ": ", "number", ", ", "next", ": ", "?", "}">>

\* The translator is about to translate a reference to an alias whose
\* translation is under way.
ReEntry ==
    /\ pc = "translate" /\ stack # <<>> /\ Head(stack).kind = "translate"
    /\ Head(stack).type.kind = "reference"
    /\ Head(stack).type.symbol \in translating

\* C20: the translation of a type alias, self-referential or not, comes to
\* an end and never runs out of call stack; a reference to an alias whose
\* translation is under way is written as `?` and not unfolded; and
\* type Recursive = {value: number, next: Recursive} is translated to
\* {value: number, next: ?}.
C20_SelfReferenceTerminates ==
    /\ <>(pc = "translated")
    /\ [](pc # "RangeError")
    /\ [][ReEntry => typeString' = Append(typeString, "?") /\ stack' = Tail(stack)]_vars
    /\ []((pc = "translated" /\ typeDeclarations[Recursive] = RecursiveDeclaration)
              => typeString = RecursiveTypedef)

C20_Witness ==
    /\ pc = "translated"
    /\ typeDeclarations[Recursive] = RecursiveDeclaration
    /\ typeString = RecursiveTypedef

(***************************************************************************)
(* Annotator: type aliases                                                 *)
(***************************************************************************)
MaxStatements == 2    \* statements of the annotated file

\* type Name = T; with or without export, and var y: T = 3;
TypeAlias(name, exported, type) ==
    [kind |-> "TypeAliasDeclaration", name |-> name, exported |-> exported, type |-> type]
VariableStatement(type) ==
    [kind |-> "VariableStatement", name |-> "y", exported |-> FALSE, type |-> type]

\* What an alias may be declared as: number, an object type that refers to
\* the alias itself, an object type that refers to the other alias, or the
\* other alias.
AliasTypes(name) ==
    LET other == CHOOSE symbol \in TypeSymbols : symbol # name
    IN  {NumberType,
         ObjectType(<<Property("value", NumberType), Property("next", TypeReference(name))>>),
         ObjectType(<<Property("next", TypeReference(other))>>),
         TypeReference(other)}

StatementChoices ==
    {TypeAlias(name, exported, type) :
        name \in TypeSymbols, exported \in BOOLEAN, type \in UNION {AliasTypes(n) : n \in TypeSymbols}}
    \cup {VariableStatement(type) :
             type \in {NumberType} \cup {TypeReference(name) : name \in TypeSymbols}}

RECURSIVE ReferencedSymbols(_)
\* The aliases a type refers to.
ReferencedSymbols(type) ==
    CASE type.kind = "reference" -> {type.symbol}
      [] type.kind = "object" ->
             UNION {ReferencedSymbols(type.properties[i].type) :
                       i \in 1..Len(type.properties)}
      [] OTHER -> {}

DeclaredAliases(statements) ==
    {statements[i].name : i \in {j \in 1..Len(statements) :
                                    statements[j].kind = "TypeAliasDeclaration"}}

\* A file that type-checks: no alias is declared twice, none is declared as
\* itself, and every alias referred to is declared.
IsAnnotatedFile(statements) ==
    /\ \A i, j \in 1..Len(statements) :
          (/\ i # j
           /\ statements[i].kind = "TypeAliasDeclaration"
           /\ statements[j].kind = "TypeAliasDeclaration")
              => statements[i].name # statements[j].name
    /\ \A i \in 1..Len(statements) :
          /\ ReferencedSymbols(statements[i].type) \subseteq DeclaredAliases(statements)
          /\ statements[i].kind = "TypeAliasDeclaration"
                 => statements[i].type \in AliasTypes(statements[i].name)

\* The text of a statement as written in the file.
StatementTexts == <<"statement 1", "statement 2", "statement 3">>

VisitFrame(index) == [kind |-> "visit", index |-> index]

AnnotatorInit ==
    /\ pc = "translate"
    /\ \E n \in 1..MaxStatements :
          \E statements \in [1..n -> StatementChoices] :
              /\ IsAnnotatedFile(statements)
              /\ sourceFile = statements
              /\ typeDeclarations =
                     [symbol \in TypeSymbols |->
                         IF symbol \in DeclaredAliases(statements)
                         THEN (CHOOSE statement \in {statements[i] : i \in 1..n} :
                                  /\ statement.kind = "TypeAliasDeclaration"
                                  /\ statement.name = symbol).type
                         ELSE NumberType]
              /\ stack = [i \in 1..n |-> VisitFrame(i)]
    /\ translating = {}
    /\ typeString = <<>>
    /\ tsicklePasses = <<>> /\ preEmitDiagnostics = <<>> /\ emitDiagnostics = <<>>
    /\ allDiagnostics = <<>> /\ allDiagnostics0 = <<>>
    /\ program = <<>> /\ calls = <<>> /\ result = NotReturned
    /\ lowerInput = [declarations |-> <<>>] /\ lowerResult = NotReturned
    /\ converted = NotReturned
    /\ FilesIdle /\ HostIdle /\ MainIdle /\ ConverterIdle

\* What the annotator writes for a statement: a type alias is copied and
\* followed by its typedef, the declaration of a variable gets its type.
StatementFrames(statement, index, binder) ==
    IF statement.kind = "TypeAliasDeclaration"
    THEN <<WriteFrame(StatementTexts[index]), WriteFrame("/** @typedef {"),
           TranslateFrame(TypeReference(statement.name)), WriteFrame("} */"),
           WriteFrame(binder), WriteFrame(statement.name), WriteFrame(";")>>
    ELSE <<WriteFrame("var "), WriteFrame("/** @type {"),
           TranslateFrame(statement.type), WriteFrame("} */"),
           WriteFrame(StatementTexts[index])>>

\* A visit that binds every typedef to a var.
VisitStatementVarOnly ==
    /\ pc = "translate" /\ stack # <<>> /\ Head(stack).kind = "visit"
    /\ stack' = StatementFrames(sourceFile[Head(stack).index], Head(stack).index, "var ")
                \o Tail(stack)
    /\ UNCHANGED <<pc, typeDeclarations, translating, typeString>>
    /\ UNCHANGED <<tsicklePasses, preEmitDiagnostics, emitDiagnostics, allDiagnostics,
                   allDiagnostics0, program, calls, result, lowerVars, decoratorVars,
                   fileVars, hostVars, mainVars, converterVars>>

\* The annotator visits the next statement of the file.
VisitStatement ==
    /\ pc = "translate" /\ stack # <<>> /\ Head(stack).kind = "visit"
    /\ LET statement == sourceFile[Head(stack).index]
       IN  stack' = StatementFrames(statement, Head(stack).index,
                                    IF statement.exported THEN "exports." ELSE "var ")
                    \o Tail(stack)
    /\ UNCHANGED <<pc, typeDeclarations, translating, typeString>>
    /\ UNCHANGED <<tsicklePasses, preEmitDiagnostics, emitDiagnostics, allDiagnostics,
                   allDiagnostics0, program, calls, result, lowerVars, decoratorVars,
                   fileVars, hostVars, mainVars, converterVars>>

AnnotatorNext == VisitStatement \/ Translate \/ TranslateReturn
AnnotatorSpec == AnnotatorInit /\ [][AnnotatorNext]_vars

(***************************************************************************)
(* Claims about the annotator                                              *)
(***************************************************************************)
RECURSIVE ClosureType(_, _)
RECURSIVE ClosureProperties(_, _, _)
\* The Closure type of a type, written out in one go.
ClosureType(type, underway) ==
    CASE type.kind = "number" -> <<"number">>
      [] type.kind = "object" ->
             <<"{">> \o ClosureProperties(type.properties, 1, underway) \o <<"}">>
      [] OTHER ->
             IF type.symbol \in underway THEN <<"?">>
             ELSE ClosureType(typeDeclarations[type.symbol], underway \cup {type.symbol})
ClosureProperties(properties, i, underway) ==
    IF i > Len(properties) THEN <<>>
    ELSE (IF i > 1 THEN <<", ">> ELSE <<>>)
         \o <<properties[i].name, ": ">> \o ClosureType(properties[i].type, underway)
         \o ClosureProperties(properties, i + 1, underway)

\* A type alias as copied, directly followed by its typedef.
AliasWithTypedef(index) ==
    LET statement == sourceFile[index]
    IN  <<StatementTexts[index], "/** @typedef {">>
        \o ClosureType(TypeReference(statement.name), {})
        \o <<"} */", IF statement.exported THEN "exports." ELSE "var ",
             statement.name, ";">>

RECURSIVE PiecesFrom(_)
\* The output of the statements from the given one on.
PiecesFrom(index) ==
    IF index > Len(sourceFile) THEN <<>>
    ELSE (IF sourceFile[index].kind = "TypeAliasDeclaration"
          THEN AliasWithTypedef(index)
          ELSE <<"var ", "/** @type {">> \o ClosureType(sourceFile[index].type, {})
               \o <<"} */", StatementTexts[index]>>)
         \o PiecesFrom(index + 1)

\* C21: in the annotated file every type alias is directly followed by a
\* typedef of its translated type, bound to `var Name` when the alias is not
\* exported and to `exports.Name` when it is.
C21_TypedefAfterEveryAlias ==
    pc = "translated" => typeString = PiecesFrom(1)

\* type Recursive = number; export type Other = number;
C21_Witness ==
    /\ pc = "translated"
    /\ sourceFile = <<TypeAlias(Recursive, FALSE, NumberType), TypeAlias(Other, TRUE, NumberType)>>
    /\ typeString = <<"statement 1", "/** @typedef {", "number", "} */", "var ", Recursive, ";",
                      "statement 2", "/** @typedef {", "number", "} */", "exports.", Other, ";">>

(***************************************************************************)
(* ES5/goog.module converter, line by line                                 *)
(***************************************************************************)
MaxLines == 3         \* lines of the CommonJS text

ModuleSpecifiers == {"./a", "./b"}
ExportNames == {"x", "y"}

\* The lines the compiler emits for a CommonJS module.
RequireLine(name, specifier) ==       \* var name = require('specifier');
    [kind |-> "var = require", name |-> name, module |-> specifier]
SideEffectLine(specifier) ==          \* require('specifier');
    [kind |-> "require", name |-> "", module |-> specifier]
ReExportLine(specifier) ==            \* __export(require('specifier'));
    [kind |-> "__export(require)", name |-> "", module |-> specifier]
EsModuleLine ==                       \* Object.defineProperty(exports, "__esModule", ...);
    [kind |-> "__esModule", name |-> "", module |-> ""]
ExportLine(name) ==                   \* exports.name = ...;
    [kind |-> "exports.", name |-> name, module |-> ""]
OtherLine == [kind |-> "other", name |-> "", module |-> ""]

\* The local variable the compiler names an import by.
ImportVariable(specifier) == IF specifier = "./a" THEN "a_1" ELSE "b_1"

CommonJsLines ==
    {RequireLine(ImportVariable(specifier), specifier) : specifier \in ModuleSpecifiers}
    \cup {SideEffectLine(specifier) : specifier \in ModuleSpecifiers}
    \cup {ReExportLine(specifier) : specifier \in ModuleSpecifiers}
    \cup {ExportLine(name) : name \in ExportNames}
    \cup {EsModuleLine, OtherLine}

\* host.pathToModuleName(context, specifier), and host.fileNameToModuleId(file),
\* which is the file name itself.
pathToModuleName(context, specifier) == <<"module of", specifier, "seen from", context>>
fileNameToModuleId(fileName) == fileName

\* The lines of the output.
GoogModuleLine(id) == [kind |-> "goog.module", name |-> "", module |-> id]
ModuleVarLine(id) == [kind |-> "var module", name |-> "", module |-> id]
GoogRequireLine(name, id) == [kind |-> "goog.require", name |-> name, module |-> id]
ReExportLoopLine(name) == [kind |-> "for (var p in)", name |-> name, module |-> ""]
ExportsObjectLine == [kind |-> "exports = {}", name |-> "", module |-> ""]

\* The temporary a re-export is required into.
ReExportVariable(index) == <<"tsickle_module_", index>>

\* A conversion of one line that requires a module only the first time.
ConvertLineOncePerModule(fileName, lines, index) ==
    LET line == lines[index]
        id == pathToModuleName(fileName, line.module)
        seen == \E j \in 1..(index - 1) :
                    lines[j].module = line.module /\ lines[j].module # ""
    IN  CASE line.kind = "var = require" ->
                 IF seen THEN <<>> ELSE <<GoogRequireLine(line.name, id)>>
          [] line.kind = "require" -> IF seen THEN <<>> ELSE <<GoogRequireLine("", id)>>
          [] line.kind = "__export(require)" ->
                 IF seen THEN <<>>
                 ELSE <<GoogRequireLine(ReExportVariable(index), id),
                        ReExportLoopLine(ReExportVariable(index))>>
          [] line.kind = "__esModule" -> <<>>
          [] OTHER -> <<line>>

\* The conversion of one line: rules 2, 3, 4 and 6.
ConvertLine(fileName, lines, index) ==
    LET line == lines[index]
        id == pathToModuleName(fileName, line.module)
    IN  CASE line.kind = "var = require" -> <<GoogRequireLine(line.name, id)>>
          [] line.kind = "require" -> <<GoogRequireLine("", id)>>
          [] line.kind = "__export(require)" ->
                 <<GoogRequireLine(ReExportVariable(index), id),
                   ReExportLoopLine(ReExportVariable(index))>>
          [] line.kind = "__esModule" -> <<>>
          [] OTHER -> <<line>>

RECURSIVE ConvertLines(_, _, _)
ConvertLines(fileName, lines, index) ==
    IF index > Len(lines) THEN <<>>
    ELSE ConvertLine(fileName, lines, index) \o ConvertLines(fileName, lines, index + 1)

\* processES5 on the lines of a file: the goog.module line and `var module`
\* first, `exports = {}` when nothing is exported, then every line converted.
processES5Lines(fileName, lines) ==
    <<GoogModuleLine(fileNameToModuleId(fileName)), ModuleVarLine(fileName)>>
    \o (IF \E i \in 1..Len(lines) : lines[i].kind = "exports."
        THEN <<>> ELSE <<ExportsObjectLine>>)
    \o ConvertLines(fileName, lines, 1)

ConverterInit ==
    /\ pc = "processES5"
    /\ es5Input \in {[fileName |-> "a.js", lines |-> lines] :
                        lines \in SeqUpTo(CommonJsLines, MaxLines)}
    /\ es5Output = NotReturned
    /\ tsicklePasses = <<>> /\ preEmitDiagnostics = <<>> /\ emitDiagnostics = <<>>
    /\ allDiagnostics = <<>> /\ allDiagnostics0 = <<>>
    /\ program = <<>> /\ calls = <<>> /\ result = NotReturned
    /\ lowerInput = [declarations |-> <<>>] /\ lowerResult = NotReturned
    /\ sourceFile = <<>> /\ converted = NotReturned
    /\ FilesIdle /\ HostIdle /\ TranslatorIdle /\ MainIdle

ProcessES5 ==
    /\ pc = "processES5" /\ es5Output = NotReturned
    /\ es5Output' = [kind |-> "returned",
                     output |-> processES5Lines(es5Input.fileName, es5Input.lines)]
    /\ UNCHANGED <<es5Input, pipelineVars, lowerVars, decoratorVars, fileVars, hostVars,
                   translatorVars, mainVars>>

ConverterNext == ProcessES5
ConverterSpec == ConverterInit /\ [][ConverterNext]_vars

(***************************************************************************)
(* Claims about the converter                                              *)
(***************************************************************************)
IsRequire(line) == line.kind \in {"var = require", "require", "__export(require)"}

RECURSIVE ModulesOf(_, _)
\* The modules of the lines of the given kinds, in order.
ModulesOf(lines, kinds) ==
    IF lines = <<>> THEN <<>>
    ELSE (IF Head(lines).kind \in kinds THEN <<Head(lines).module>> ELSE <<>>)
         \o ModulesOf(Tail(lines), kinds)

\* The module ids of the input's requires, in order.
RequiredIds(fileName, lines) ==
    LET modules == ModulesOf(lines, {"var = require", "require", "__export(require)"})
    IN  [i \in 1..Len(modules) |-> pathToModuleName(fileName, modules[i])]

\* The module ids of the output's goog.requires, in order.
GoogRequiredIds(lines) == ModulesOf(lines, {"goog.require"})

\* How often exports.name is assigned.
ExportCount(lines, name) ==
    Cardinality({i \in 1..Len(lines) : lines[i].kind = "exports." /\ lines[i].name = name})

\* C22: the goog.requires of the output are, one for one and in order, the
\* module ids of the requires of the input; no require is left in the output;
\* and every exports.name assignment is in the output as often as in the input.
C22_RequiresAndExportsPreserved ==
    es5Output # NotReturned =>
        /\ GoogRequiredIds(es5Output.output) = RequiredIds(es5Input.fileName, es5Input.lines)
        /\ \A i \in 1..Len(es5Output.output) : ~IsRequire(es5Output.output[i])
        /\ \A name \in ExportNames :
              ExportCount(es5Output.output, name) = ExportCount(es5Input.lines, name)

\* var a_1 = require('./a'); require('./a'); exports.x = ...;
C22_Witness ==
    /\ es5Output # NotReturned
    /\ es5Input.lines = <<RequireLine("a_1", "./a"), SideEffectLine("./a"), ExportLine("x")>>
    /\ Len(GoogRequiredIds(es5Output.output)) = 2

(***************************************************************************)
(* What becomes of the decorators convertDecorators lowers                 *)
(***************************************************************************)
\* The decorators the visitor of the class ended with, over its three
\* metadata fields: decorators, the entries of ctorParameters, and the
\* entries of propDecorators.
RecordedDecorators(visitor) ==
    Range(visitor.decorators.value)
    \cup UNION {Range(entry.decorators.value) : entry \in Range(visitor.ctorParameters.value)}
    \cup UNION {Range(entry.decorators) : entry \in Range(visitor.propDecorators.value)}

\* The decorator's text is suppressed: maybeProcessDecorator handled it, and
\* no piece of the output copies its first character.
Suppressed(class, d) ==
    /\ maybeProcessDecorator(VisitingClass(class), d).handled
    /\ \A k \in 1..Len(converted.output) : ~Copies(converted.output[k], d.start)

\* C23: no lowered decorator is lost: every decorator of a class whose text
\* is suppressed from the output because it is lowerable is recorded in the
\* metadata of that class (decorators, ctorParameters or propDecorators).
C23_NoLoweredDecoratorLost ==
    converted # NotReturned =>
        \A class \in {c \in ClassDeclarations(sourceFile) : EndsInBrace(sourceFile, c)} :
            \A d \in AllDecorators(class) :
                Suppressed(class, d) => d \in RecordedDecorators(VisitorOf(class))

(***************************************************************************)
(* Classes declared inside the methods of classes                          *)
(***************************************************************************)
ClassNames == <<"C1", "C2", "C3", "C4">>
Ann == Syntax("Decorator", "", AnnotationFunction, "", <<Token("@"), Identifier("Ann")>>)

\* @Ann m() { classes }.  The classes are laid out as children of the method:
\* the Block between them is a node the rewriter copies like any other.
NestedMethodSyntax(classes) ==
    Syntax("MethodDeclaration", "", <<>>, "",
           <<Ann, Identifier("m"), Token("("), Token(")"), Token("{")>>
           \o classes \o <<Token("}")>>)

\* The class at the given depth: decorated with @Ann or not; before the
\* method with the nested class nothing, the property @Ann a or a constructor
\* with the parameter @Ann p; after it nothing or the method @Ann b.
RECURSIVE NestedClasses(_)
NestedClasses(depth) ==
    LET nested == {<<>>}
                  \cup (IF depth < MaxNesting
                        THEN {<<NestedMethodSyntax(<<c>>)>> : c \in NestedClasses(depth + 1)}
                        ELSE {})
    IN  {ClassSyntax(ClassNames[depth], d, first \o n \o last, closed) :
            d \in {<<>>, <<Ann>>},
            first \in {<<>>, <<MemberSyntax(<<Ann>>, "a")>>,
                       <<ConstructorSyntax(<<ParameterSyntax(<<Ann>>, "")>>)>>},
            n \in nested,
            last \in {<<>>, <<MemberSyntax(<<Ann>>, "b")>>},
            closed \in BOOLEAN}

NestingInit ==
    /\ \E class \in NestedClasses(1) : sourceFile = ParseSourceFile(<<class>>)
    /\ converted = NotReturned
    /\ lowerInput = [declarations |-> <<>>] /\ lowerResult = NotReturned
    /\ pc = "idle" /\ tsicklePasses = <<>> /\ preEmitDiagnostics = <<>>
    /\ emitDiagnostics = <<>> /\ allDiagnostics = <<>> /\ allDiagnostics0 = <<>>
    /\ program = <<>> /\ calls = <<>> /\ result = NotReturned
    /\ FilesIdle /\ HostIdle /\ TranslatorIdle /\ MainIdle /\ ConverterIdle

NestingSpec == NestingInit /\ [][DecoratorNext]_vars

RECURSIVE Descendants(_)
Descendants(node) == {node} \cup UNION {Descendants(c) : c \in Range(node.children)}

\* The class declarations of the file at any depth, and those among them
\* whose enclosing classes all end in "}": the ones the rewriter visits.
AllClasses(file) == {c \in Descendants(file) : c.kind = "ClassDeclaration"}
Encloses(outer, inner) == outer # inner /\ inner \in Descendants(outer)
VisitedClasses(file) ==
    {c \in AllClasses(file) :
        \A outer \in AllClasses(file) : Encloses(outer, c) => EndsInBrace(file, outer)}

\* The lowerable decorators of the class itself, not of a class nested in it.
OwnLoweredDecorators(class) == {d \in AllDecorators(class) : shouldLower(d)}

\* C24: one DecoratorClassVisitor is active at a time.  Entering a class
\* declaration installs a fresh visitor and leaving it restores the one that
\* was active before; so every visited class has exactly one visitor, the
\* decorators a visitor gathered are exactly those of its own class and
\* never those of a class nested in it or enclosing it, and no visitor is
\* active once the whole file has been processed.
C24_VisitorOfInnermostClass ==
    converted # NotReturned =>
        /\ ~converted.currentDecoratorConverter.active
        /\ \A class \in AllClasses(sourceFile) :
              \A active \in {NoVisitor} \cup Range(converted.visitors) :
                  maybeProcess([NewRewriter(sourceFile) EXCEPT
                                   !.currentDecoratorConverter = active],
                               class).rw.currentDecoratorConverter = active
        /\ \A class \in VisitedClasses(sourceFile) :
              /\ Cardinality({i \in DOMAIN converted.visitors :
                                 converted.visitors[i].classDecl = class.pos}) = 1
              /\ RecordedDecorators(VisitorOf(class)) \subseteq OwnLoweredDecorators(class)
              /\ EndsInBrace(sourceFile, class)
                 => RecordedDecorators(VisitorOf(class)) = OwnLoweredDecorators(class)

\* C2 is declared in a method of C1, both are closed; C2 has a lowered member
\* decorator, C1 has one on a member that follows the method, and each is
\* recorded by the visitor of its own class.
C24_Witness ==
    /\ converted # NotReturned
    /\ \E outer \in VisitedClasses(sourceFile), inner \in VisitedClasses(sourceFile) :
          /\ Encloses(outer, inner)
          /\ EndsInBrace(sourceFile, outer) /\ EndsInBrace(sourceFile, inner)
          /\ \E m \in Members(outer) :
                /\ m.pos > inner.end
                /\ Range(Decorators(m)) \subseteq RecordedDecorators(VisitorOf(outer))
                /\ Decorators(m) # <<>>
          /\ \E m \in Members(inner) :
                /\ Decorators(m) # <<>>
                /\ Range(Decorators(m)) \subseteq RecordedDecorators(VisitorOf(inner))
          /\ VisitorOf(outer).propDecorators.set
          /\ VisitorOf(inner).propDecorators.set

(***************************************************************************)
(* ctorParameters: when it is recorded, and what its entries are           *)
(***************************************************************************)
\* The output has the header of the static ctorParameters field, whose
\* initialiser is the arrow function "() => [".
EmitsCtorParameters(output) ==
    \E k \in 1..Len(output) : Emitted(output[k], StaticCtorParameters)

\* C25: for every class processed, ctorParameters is recorded and the static
\* ctorParameters field is emitted, wrapped in an arrow function, if and only
\* if the class has a lowered class decorator or one of its constructor
\* parameters, at any position, has a lowered decorator.
C25_CtorParametersIffLowered ==
    converted # NotReturned =>
        \A class \in {c \in ClassDeclarations(sourceFile) : EndsInBrace(sourceFile, c)} :
            (/\ VisitorOf(class).ctorParameters.set
             /\ EmitsCtorParameters(converted.output))
            <=> \/ \E d \in ClassDecorators(class) : shouldLower(d)
                \/ \E d \in ParameterDecorators(class) : shouldLower(d)

\* The parameter's type resolves to a symbol with the Value flag.
HasValueType(param) ==
    /\ ParameterType(param) # <<>>
    /\ ParameterType(param)[1].symbol \in ValueSymbols

\* C26: gatherConstructor produces one ctorParameters entry per constructor
\* parameter, in declaration order; an entry is null exactly when the
\* parameter has neither a type that resolves to a value symbol nor a lowered
\* decorator, and otherwise it is the pair of the type reference and the
\* lowered decorators of the parameter.
C26_NullEntryIffNothingToRecord ==
    converted # NotReturned =>
        \A class \in ClassDeclarations(sourceFile) :
            \A ctor \in Constructors(class) :
                VisitorOf(class).ctorParameters.set =>
                    LET entries == VisitorOf(class).ctorParameters.value
                        params == Parameters(ctor)
                    IN  /\ Len(entries) = Len(params)
                        /\ \A i \in 1..Len(params) :
                              /\ entries[i].isNull
                                 <=> (~HasValueType(params[i])
                                      /\ decoratorsToLower(params[i]) = <<>>)
                              /\ ~entries[i].isNull =>
                                    /\ entries[i].ctor.set <=> HasValueType(params[i])
                                    /\ entries[i].ctor.set =>
                                          entries[i].ctor.value[1]
                                              = ParameterType(params[i])[1].symbol
                                    /\ entries[i].decorators.value
                                          = decoratorsToLower(params[i])

(***************************************************************************)
(* Source files with several classes, one after the other                  *)
(***************************************************************************)
MaxClasses == 3   \* classes of one source file

\* The first n classes of a file: each carries no decorator or two class
\* decorators and has no members.  Only the last class of a file can lack
\* its closing brace.
RECURSIVE TopLevelClasses(_, _)
TopLevelClasses(n, last) ==
    IF n = 0 THEN {<<>>}
    ELSE {Append(before, ClassSyntax(ClassNames[n], d, <<>>, closed)) :
             before \in TopLevelClasses(n - 1, FALSE),
             d \in ClassDecoratorLists(0) \cup ClassDecoratorLists(2),
             closed \in IF last THEN BOOLEAN ELSE {TRUE}}

ClassesInit ==
    /\ \E n \in 1..MaxClasses :
          \E classes \in TopLevelClasses(n, TRUE) : sourceFile = ParseSourceFile(classes)
    /\ converted = NotReturned
    /\ lowerInput = [declarations |-> <<>>] /\ lowerResult = NotReturned
    /\ pc = "idle" /\ tsicklePasses = <<>> /\ preEmitDiagnostics = <<>>
    /\ emitDiagnostics = <<>> /\ allDiagnostics = <<>> /\ allDiagnostics0 = <<>>
    /\ program = <<>> /\ calls = <<>> /\ result = NotReturned
    /\ FilesIdle /\ HostIdle /\ TranslatorIdle /\ MainIdle /\ ConverterIdle

ClassesSpec == ClassesInit /\ [][DecoratorNext]_vars

\* The places in the output of what was written for the class: from the copy
\* of the trivia before it up to the first later copy of input text that
\* lies after the class.
PiecesOf(output, class) ==
    LET leading == Copy(sourceFile, class.pos, class.start)
        open == {k \in 1..Len(output) : output[k] = leading}
        first == CHOOSE k \in open : \A j \in open : k <= j
        after == {k \in (first + 1)..Len(output) :
                     output[k].src = "copy" /\ output[k].from >= class.end}
        stop == IF after = {} THEN Len(output) + 1
                ELSE CHOOSE k \in after : \A j \in after : k <= j
    IN  IF open = {} THEN {} ELSE first..(stop - 1)

\* The static decorators fields among what was written for the class.
StaticDecoratorsOf(output, class) ==
    {h \in PiecesOf(output, class) : Emitted(output[h], StaticDecorators)}

ImportSyntax(alias) ==
    Syntax("ImportDeclaration", "", <<>>, "",
           <<Token("import"), Token("{"),
             Syntax("ImportSpecifier", "", <<>>, "Ext",
                    IF alias = "Ext" THEN <<Identifier("Ext")>>
                    ELSE <<Identifier("Ext"), Token("as"), Identifier(alias)>>),
             Token("}"), Token("from"), Token("'./ext'"), Token(";")>>)

\* [decorators] p: text, where text names the symbol.
TypedParameterSyntax(decorators, text, symbol) ==
    Syntax("Parameter", "", <<>>, "",
           decorators \o <<Identifier("p")>>
           \o (IF text = "" THEN <<>>
               ELSE <<Token(":"), Syntax("TypeReference", text, <<>>, symbol, <<>>)>>))

\* The parameters of a file that knows Ext by the alias: without a type, or
\* of the type C1, Iface or Ext.
ParameterChoices(alias) ==
    {TypedParameterSyntax(d, t[1], t[2]) :
        d \in DecoratorLists(0) \cup DecoratorLists(1),
        t \in {<<"", "">>, <<"C1", "C1">>, <<"Iface", "Iface">>, <<alias, "Ext">>}}

ImportInit ==
    /\ \E alias \in {"Ext", "E"}, imports \in BOOLEAN,
          d \in ClassDecoratorLists(0) \cup ClassDecoratorLists(1),
          n \in 1..MaxParameters :
          \E ps \in [1..n -> ParameterChoices(IF imports THEN alias ELSE "Ext")] :
              sourceFile =
                  ParseSourceFile((IF imports THEN <<ImportSyntax(alias)>> ELSE <<>>)
                                  \o <<ClassSyntax("C1", d, <<ConstructorSyntax(ps)>>, TRUE)>>)
    /\ converted = NotReturned
    /\ lowerInput = [declarations |-> <<>>] /\ lowerResult = NotReturned
    /\ pc = "idle" /\ tsicklePasses = <<>> /\ preEmitDiagnostics = <<>>
    /\ emitDiagnostics = <<>> /\ allDiagnostics = <<>> /\ allDiagnostics0 = <<>>
    /\ program = <<>> /\ calls = <<>> /\ result = NotReturned
    /\ FilesIdle /\ HostIdle /\ TranslatorIdle /\ MainIdle /\ ConverterIdle

ImportSpec == ImportInit /\ [][DecoratorNext]_vars

\* The local name the file imports the symbol under: the last identifier of
\* its import specifier.
ImportAlias(file, sym) ==
    LET specifiers == {n \in Descendants(file) :
                          n.kind = "ImportSpecifier" /\ n.symbol = sym}
    IN  IF specifiers = {} THEN <<>>
        ELSE LET specifier == CHOOSE n \in specifiers : TRUE
             IN  <<specifier.children[Len(specifier.children)]>>

\* The pieces written for the type: fields of the ctorParameters entries.
TypePieces(output) ==
    LET at == SelectSeq([k \in 1..Len(output) |-> k],
                        LAMBDA k : Emitted(output[k], <<"{type: ">>))
    IN  [j \in 1..Len(at) |-> output[at[j] + 1]]

\* The name written in the file for the value declaration of the symbol.
DeclaredName(file, sym) ==
    SelectSeq(ValueDeclaration(file, sym)[1].children, LAMBDA c : c.kind = "Identifier")[1]

NoSetting == [has |-> FALSE, value |-> FALSE]
Setting(v) == [has |-> TRUE, value |-> v]
NoPath == [has |-> FALSE, value |-> ""]
ExternsPath == [has |-> TRUE, value |-> "externs.js"]
RootDir == [has |-> TRUE, value |-> "root"]
ProjectName == [has |-> TRUE, value |-> "project"]

\* The tsickle flags; a flag that takes a value has the one value above.
Flags == {"typed", "typedSignatures", "devmode", "externs", "verbose",
          "googModuleRootDir", "googModuleProjectName"}
EmptySettings ==
    [isTyped |-> NoSetting, isTypedSignatures |-> NoSetting, devMode |-> NoSetting,
     verbose |-> NoSetting, externsPath |-> NoPath, googModuleRootDir |-> NoPath,
     googModuleProjectName |-> NoPath]

\* The tsickle section of tsconfig.json: each of typed, typedSignatures and
\* devmode is absent, true or false, externs is absent or a path, and of
\* verbose, googModuleRootDir and googModuleProjectName at most one is given.
TsickleSettings ==
    {[typed |-> t, typedSignatures |-> s, devmode |-> d, externs |-> e,
      verbose |-> o[1], googModuleRootDir |-> o[2], googModuleProjectName |-> o[3]] :
        t \in {NoSetting, Setting(TRUE), Setting(FALSE)},
        s \in {NoSetting, Setting(TRUE), Setting(FALSE)},
        d \in {NoSetting, Setting(TRUE), Setting(FALSE)},
        e \in {NoPath, ExternsPath},
        o \in {<<NoSetting, NoPath, NoPath>>, <<Setting(TRUE), NoPath, NoPath>>,
               <<NoSetting, RootDir, NoPath>>, <<NoSetting, NoPath, ProjectName>>}}

\* What loadTscConfig returns: null, a configuration whose module kind is
\* not CommonJS, or a CommonJS configuration with a tsickle section.
Configs ==
    {[kind |-> "null", module |-> "", tsickleSettings |-> CHOOSE t \in TsickleSettings : TRUE],
     [kind |-> "config", module |-> "ES2015",
      tsickleSettings |-> CHOOSE t \in TsickleSettings : TRUE]}
    \cup {[kind |-> "config", module |-> "CommonJS", tsickleSettings |-> t] :
             t \in TsickleSettings}

loadSettingsFromArgs(flags) ==
    [isTyped |-> IF "typed" \in flags \/ "typedSignatures" \in flags
                 THEN Setting(TRUE) ELSE NoSetting,
     isTypedSignatures |-> IF "typedSignatures" \in flags THEN Setting(TRUE) ELSE NoSetting,
     devMode |-> IF "devmode" \in flags THEN Setting(TRUE) ELSE NoSetting,
     verbose |-> IF "verbose" \in flags THEN Setting(TRUE) ELSE NoSetting,
     externsPath |-> IF "externs" \in flags THEN ExternsPath ELSE NoPath,
     googModuleRootDir |-> IF "googModuleRootDir" \in flags THEN RootDir ELSE NoPath,
     googModuleProjectName |-> IF "googModuleProjectName" \in flags
                               THEN ProjectName ELSE NoPath]

\* The loop of main over the keys of config.tsickleSettings: a key sets its
\* setting only when the command line has not set it.
mergeTsickleSettings(fromArgs, tsickleSettings) ==
    [fromArgs EXCEPT
        !.externsPath = IF ~@.has /\ tsickleSettings.externs.has
                        THEN Setting(tsickleSettings.externs.value) ELSE @,
        !.isTyped = IF ~@.has /\ tsickleSettings.typed.has
                    THEN Setting(tsickleSettings.typed.value) ELSE @,
        !.isTypedSignatures = IF ~@.has /\ tsickleSettings.typedSignatures.has
                              THEN Setting(tsickleSettings.typedSignatures.value) ELSE @,
        !.verbose = IF ~@.has /\ tsickleSettings.verbose.has
                    THEN Setting(tsickleSettings.verbose.value) ELSE @,
        !.devMode = IF ~@.has /\ tsickleSettings.devmode.has
                    THEN Setting(tsickleSettings.devmode.value) ELSE @,
        !.googModuleRootDir = IF ~@.has /\ tsickleSettings.googModuleRootDir.has
                              THEN Setting(tsickleSettings.googModuleRootDir.value) ELSE @,
        !.googModuleProjectName =
            IF ~@.has /\ tsickleSettings.googModuleProjectName.has
            THEN Setting(tsickleSettings.googModuleProjectName.value) ELSE @]

\* tsickleCompilerHostOptions; an absent setting is undefined, which is falsy.
getDefaultClosureJSOptions(s) ==
    [googmodule |-> TRUE, es5Mode |-> FALSE,
     untyped |-> ~s.isTyped.value,
     untypedFunctionBodies |-> s.isTypedSignatures.value]

SuppressHeader == "/** @fileoverview @suppress {...} */\n"
JsNames == <<"a.js", "b.js", "c.js", "d.js">>

\* What toClosureJS or toClosureJSDevMode returns: null, or n output files
\* and the externs.
ClosureResults ==
    {null}
    \cup {[kind |-> "output",
           jsFiles |-> [i \in 1..n |-> [name |-> JsNames[i], src |-> <<"js">>]],
           externs |-> <<"externs">>] : n \in 0..MaxFiles}

CliInit ==
    /\ pc = "loadSettingsFromArgs"
    /\ mainArgs \in SUBSET Flags
    /\ config \in Configs
    /\ settings = EmptySettings
    /\ options = [outDir |-> ""]
    /\ writtenFiles = <<>> /\ fileIndex = 0 /\ result = NotReturned
    /\ tsicklePasses = <<>> /\ preEmitDiagnostics = <<>> /\ emitDiagnostics = <<>>
    /\ allDiagnostics = <<>> /\ allDiagnostics0 = <<>> /\ program = <<>> /\ calls = <<>>
    /\ lowerInput = [declarations |-> <<>>] /\ lowerResult = NotReturned
    /\ sourceFile = <<>> /\ converted = NotReturned
    /\ fileSystem = <<>> /\ fileNames = <<>> /\ jsFiles = <<>> /\ externs = <<>>
    /\ tsickleOutput = <<>> /\ reparseDiagnostics = <<>>
    /\ HostIdle /\ TranslatorIdle /\ ConverterIdle

cliUnchanged ==
    <<tsicklePasses, preEmitDiagnostics, emitDiagnostics, allDiagnostics, allDiagnostics0,
      program, calls, lowerVars, decoratorVars, fileSystem, fileNames, jsFiles, externs,
      tsickleOutput, reparseDiagnostics, hostVars, translatorVars, converterVars,
      mainArgs, config>>

LoadSettingsFromArgs ==
    /\ pc = "loadSettingsFromArgs"
    /\ settings' = loadSettingsFromArgs(mainArgs)
    /\ pc' = "loadTscConfig"
    /\ UNCHANGED <<options, result, fileIndex, writtenFiles, cliUnchanged>>

\* main returns 1 without a configuration or with a module kind other than
\* CommonJS; otherwise it merges the tsickle section into the settings.
LoadTscConfig ==
    /\ pc = "loadTscConfig"
    /\ IF config.kind = "null" \/ config.module # "CommonJS"
       THEN pc' = "return 1" /\ UNCHANGED settings
       ELSE /\ settings' = mergeTsickleSettings(settings, config.tsickleSettings)
            /\ pc' = "toClosureJS"
    /\ UNCHANGED <<options, result, fileIndex, writtenFiles, cliUnchanged>>

\* The run itself: in dev mode toClosureJSDevMode, else toClosureJS with the
\* options of getDefaultClosureJSOptions.
RunClosure ==
    /\ pc = "toClosureJS"
    /\ \E closure \in ClosureResults :
          /\ result' = closure
          /\ pc' = IF closure.kind = "null" THEN "return 1" ELSE "write"
    /\ options' = IF settings.devMode.value THEN options
                  ELSE getDefaultClosureJSOptions(settings)
    /\ UNCHANGED <<settings, fileIndex, writtenFiles, cliUnchanged>>

\* A write loop that adds the header to untyped output only.
WriteOutputFileUntypedOnly ==
    /\ pc = "write" /\ fileIndex < Len(result.jsFiles)
    /\ LET file == result.jsFiles[fileIndex + 1]
           src == IF ~settings.isTyped.value
                  THEN <<SuppressHeader>> \o file.src ELSE file.src
       IN  writtenFiles' = Append(writtenFiles, [fileName |-> file.name, src |-> src])
    /\ fileIndex' = fileIndex + 1
    /\ UNCHANGED <<pc, settings, options, result, cliUnchanged>>

\* One iteration of the loop over closure.jsFiles.
WriteOutputFile ==
    /\ pc = "write" /\ fileIndex < Len(result.jsFiles)
    /\ LET file == result.jsFiles[fileIndex + 1]
           src == IF ~settings.isTyped.value \/ settings.isTypedSignatures.value
                  THEN <<SuppressHeader>> \o file.src ELSE file.src
       IN  writtenFiles' = Append(writtenFiles, [fileName |-> file.name, src |-> src])
    /\ fileIndex' = fileIndex + 1
    /\ UNCHANGED <<pc, settings, options, result, cliUnchanged>>

\* After the loop: the externs are written if a path is set, and main
\* returns 0.
WriteExterns ==
    /\ pc = "write" /\ fileIndex = Len(result.jsFiles)
    /\ writtenFiles' = IF settings.externsPath.value # ""
                       THEN Append(writtenFiles, [fileName |-> settings.externsPath.value,
                                                  src |-> result.externs])
                       ELSE writtenFiles
    /\ pc' = "return 0"
    /\ UNCHANGED <<settings, options, result, fileIndex, cliUnchanged>>

CliNext ==
    \/ LoadSettingsFromArgs
    \/ LoadTscConfig
    \/ RunClosure
    \/ WriteOutputFile
    \/ WriteExterns

CliSpec == CliInit /\ [][CliNext]_vars

\* The output files written so far: the writes of the loop over jsFiles.
WrittenOutputFiles == SubSeq(writtenFiles, 1, fileIndex)
HasHeader(file) == file.src # <<>> /\ file.src[1] = SuppressHeader

\* C28: main prepends the @fileoverview @suppress header to an output file
\* if and only if the run is untyped or its function bodies are untyped; the
\* output of a fully typed run has no header.
C28_HeaderIffUntyped ==
    pc \in {"write", "return 0"} =>
        /\ Len(writtenFiles) >= fileIndex
        /\ \A i \in 1..fileIndex :
              /\ writtenFiles[i].fileName = result.jsFiles[i].name
              /\ HasHeader(writtenFiles[i])
                 <=> \/ getDefaultClosureJSOptions(settings).untyped
                     \/ getDefaultClosureJSOptions(settings).untypedFunctionBodies
              /\ writtenFiles[i].src
                     = (IF HasHeader(writtenFiles[i]) THEN <<SuppressHeader>> ELSE <<>>)
                       \o result.jsFiles[i].src
              /\ (settings.isTyped.value /\ ~settings.isTypedSignatures.value)
                 => ~HasHeader(writtenFiles[i])

\* --typedSignatures: the run is typed, its function bodies are not, and the
\* two files written carry the header.
C28_Witness ==
    /\ pc = "return 0"
    /\ mainArgs = {"typedSignatures"}
    /\ settings.isTyped.value /\ settings.isTypedSignatures.value
    /\ fileIndex = 2
    /\ HasHeader(writtenFiles[1]) /\ HasHeader(writtenFiles[2])

\* C29: typedSignatures implies typed.  Once the settings are resolved from
\* the command line and from the tsickle section of tsconfig.json,
\* isTypedSignatures set implies isTyped set, and the options of the run
\* never have untyped together with untypedFunctionBodies.
C29_TypedSignaturesImpliesTyped ==
    pc \in {"toClosureJS", "write", "return 0"} =>
        /\ settings.isTypedSignatures.value => settings.isTyped.value
        /\ ~(/\ getDefaultClosureJSOptions(settings).untyped
             /\ getDefaultClosureJSOptions(settings).untypedFunctionBodies)

(***************************************************************************)
(* toClosureJS: the result and the caller's diagnostics                    *)
(***************************************************************************)
\* The diagnostics the call has appended to the caller's array.
AppendedDiagnostics == SubSeq(allDiagnostics, Len(allDiagnostics0) + 1, Len(allDiagnostics))

\* C30: toClosureJS returns null if and only if it appended at least one
\* diagnostic to allDiagnostics during the call; when it returns a result
\* that is not null, allDiagnostics is as it was before the call and the
\* result carries the jsFiles map and the externs string.
C30_NullIffDiagnosticsAppended ==
    /\ IsPrefix(allDiagnostics0, allDiagnostics)
    /\ pc = "returned" =>
          /\ result.kind \in {"null", "output"}
          /\ result.kind = "null" <=> Len(AppendedDiagnostics) >= 1
          /\ result.kind = "output" =>
                /\ allDiagnostics = allDiagnostics0
                /\ DOMAIN result = {"kind", "jsFiles", "externs"}
                /\ result.jsFiles = <<"emitted", program>>
                /\ result.externs = <<"externs", program>>
    /\ pc # "returned" => result = NotReturned /\ AppendedDiagnostics = <<>>

\* Both passes ran and emit reported nothing: the output is returned and the
\* caller's diagnostics, not empty before the call, are the same.
C30_Witness ==
    /\ pc = "returned" /\ result.kind = "output"
    /\ Len(program) = 2
    /\ allDiagnostics0 # <<>> /\ allDiagnostics = allDiagnostics0

====
